---- MODULE Spec2Model ----
(***************************************************************************)
(* Token rendering and segmentation engine of                              *)
(* src/local/test_soniox_transcription.py: token_time_bounds,              *)
(* group_tokens_by_speaker, render_tokens, render_tokens_with_timestamps,  *)
(* tokens_to_srt, the two time formatters and transcribe_local_file; and   *)
(* download_logo and main of src/scripts/download_provider_logos.py; and   *)
(* compute_plan and apply_plan of src/local/scripts/rename_bafenban.py.    *)
(*                                                                         *)
(* A Python str is a sequence of one-character strings, a dict is a        *)
(* function whose DOMAIN is the set of keys that are present, and an       *)
(* Optional value is a sequence of length 0 (None) or 1.  A behaviour is   *)
(* one call of one function on an input drawn by Init; the loops advance   *)
(* one iteration per step.                                                 *)
(***************************************************************************)
EXTENDS Integers, Sequences, FiniteSets, TLC

VARIABLES
    final_tokens,       \* the token array handed to the call
    ms,                 \* the argument of format_time / format_srt_time
    call,               \* the function that was called ("none" before)
    pc,                 \* position of the call: idle, loop, done
    i,                  \* 1-based index of the next loop iteration
    gap_ms,             \* group_tokens_by_speaker's parameter
    chunk_duration_ms,  \* tokens_to_srt's parameter
    segments,           \* group_tokens_by_speaker / render_tokens_with_timestamps
    current_segment,    \* Optional segment being built
    text_parts,         \* render_tokens / render_tokens_with_timestamps
    current_speaker,    \* Optional str
    current_language,   \* Optional str
    srt_parts,          \* tokens_to_srt
    chunk_index,
    chunk_tokens,
    chunk_start_ms,     \* Optional int
    chunk_end_ms,       \* Optional int
    result,             \* Optional return value of the call
    force,              \* download_logo's force flag
    files,              \* output_dir: path -> Optional content
    http_log,           \* the URLs requests.get was called with, in order
    download,           \* provider_id -> position, response and status of its download_logo call
    api_key,            \* transcribe_local_file: whether SONIOX_API_KEY is set
    audio_exists,       \* whether audio_path names an existing file
    extra_context,      \* Optional str
    transcribe_pc,      \* position of the transcribe_local_file call
    file_id,            \* Optional id returned by the upload
    transcription_id,   \* Optional id returned by the creation
    poll_count,
    service,            \* what the Soniox service holds: files, transcriptions, status
    transcribed,        \* Optional: the returned dict, or the exception raised
    directory,          \* rename_bafenban: the names of the mp3 files in dir_path
    start_index,        \* compute_plan's parameter
    dry_run,            \* apply_plan's parameter
    rename_pc,          \* idle, plan (in compute_plan), apply (in apply_plan), done, raised
    listing,            \* compute_plan's files, the sorted listing
    plan,               \* sequence of <<old name, new name>>
    used_targets,
    idx,
    position,           \* 1-based index of the next iteration of either loop
    renames,            \* the os.rename calls made, in order
    skipped,            \* the plan entries apply_plan skipped
    catalog_ids,        \* download_provider_logos.main: the ids the catalog yields
    requested,          \* Optional set of ids given with --providers
    main_pc,            \* idle, pool (workers running), done
    provider_ids,       \* the ids submitted to the pool, in order
    futures,            \* one download_logo call per submitted id
    completion,         \* the futures as_completed has yielded, in that order
    statuses,           \* dict provider_id -> status
    summary,            \* Optional counts downloaded / skipped / failed
    exit_code           \* Optional return value of main

logoVars == <<force, files, http_log, download>>

transcribeVars == <<api_key, audio_exists, extra_context, transcribe_pc, file_id, transcription_id,
                    poll_count, service, transcribed>>

renameVars == <<directory, start_index, dry_run, rename_pc, listing, plan, used_targets,
                idx, position, renames, skipped>>

mainVars == <<catalog_ids, requested, main_pc, provider_ids, futures, completion,
              statuses, summary, exit_code>>

ioVars == <<logoVars, transcribeVars, renameVars, mainVars>>

tokenVars == <<final_tokens, ms, call, pc, i, gap_ms, chunk_duration_ms, segments,
               current_segment, text_parts, current_speaker, current_language,
               srt_parts, chunk_index, chunk_tokens, chunk_start_ms, chunk_end_ms,
               result>>

notLogoVars == <<tokenVars, transcribeVars, renameVars, mainVars>>

notTranscribeVars == <<tokenVars, logoVars, renameVars, mainVars>>

notRenameVars == <<tokenVars, logoVars, transcribeVars, mainVars>>

notMainVars == <<tokenVars, transcribeVars, renameVars, download>>

vars == <<tokenVars, logoVars, transcribeVars, renameVars, mainVars>>

-----------------------------------------------------------------------------
(* Bounds of the model *)

MaxTokens == 3

MaxSpanTokens == 1

MaxHours == 100

MaxPolls == 3

MaxFiles == 3

MaxCatalog == 3

-----------------------------------------------------------------------------
(* Python values *)

None == <<>>

Some(x) == <<x>>

EmptyDict == <<>>

Has(d, k) == k \in DOMAIN d

Field(k, opt) == IF opt = None THEN EmptyDict ELSE (k :> opt[1])

Max(a, b) == IF a >= b THEN a ELSE b

\* str.isspace for one character
IsSpace(c) == c \in {" ", "\n", "\t", "\r"}

RECURSIVE LStrip(_)
LStrip(s) ==
    IF s # <<>> /\ IsSpace(Head(s)) THEN LStrip(Tail(s)) ELSE s

RECURSIVE RStrip(_)
RStrip(s) ==
    IF s # <<>> /\ IsSpace(s[Len(s)]) THEN RStrip(SubSeq(s, 1, Len(s) - 1)) ELSE s

Strip(s) == RStrip(LStrip(s))

\* "".join(parts)
RECURSIVE Join(_)
Join(parts) ==
    IF parts = <<>> THEN <<>> ELSE Head(parts) \o Join(Tail(parts))

\* sep.join(parts)
RECURSIVE JoinWith(_, _)
JoinWith(sep, parts) ==
    IF parts = <<>> THEN <<>>
    ELSE IF Len(parts) = 1 THEN parts[1]
    ELSE parts[1] \o sep \o JoinWith(sep, Tail(parts))

DigitChar(d) == <<"0", "1", "2", "3", "4", "5", "6", "7", "8", "9">>[d + 1]

RECURSIVE NatStr(_)
NatStr(n) ==
    IF n < 10 THEN <<DigitChar(n)>> ELSE NatStr(n \div 10) \o <<DigitChar(n % 10)>>

RECURSIVE Zeros(_)
Zeros(n) == IF n <= 0 THEN <<>> ELSE <<"0">> \o Zeros(n - 1)

\* format(n, "0<w>d"): the sign first, then zeros up to width w, then digits
ZeroPad(n, w) ==
    LET sign == IF n < 0 THEN <<"-">> ELSE <<>>
        digits == NatStr(IF n < 0 THEN 0 - n ELSE n)
    IN  sign \o Zeros(w - Len(sign) - Len(digits)) \o digits

-----------------------------------------------------------------------------
(* Tokens *)

Speaker_1 == <<"1">>

Speaker_2 == <<"2">>

Unknown == <<"u", "n", "k", "n", "o", "w", "n">>

Token(text, speaker, language, timing) ==
    ("text" :> text) @@ Field("speaker", speaker) @@ Field("language", language)
        @@ timing

Timing(start, end, duration) ==
    Field("start_ms", start) @@ Field("end_ms", end) @@ Field("duration_ms", duration)

\* Inputs of the segmentation and chunking runs: three speakers (one of them
\* tagged with a language) and four spans whose pauses and ends fall on and
\* next to the thresholds (pauses of 100, 101, 1500 and 1501 ms; ends of 2000
\* and 2001 ms), each with its own text, one of them blank.
TimedTexts ==
    { <<Timing(None, Some(500), None), <<"H", "i", " ">> >>,
      <<Timing(Some(600), None, Some(1300)), <<"t", "h", "e", "r", "e">> >>,
      <<Timing(Some(2000), Some(2000), None), <<" ">> >>,
      <<Timing(Some(2001), None, None), <<" ", "y", "o", "u">> >> }

SpeakerLanguages ==
    { <<None, None>>,
      <<Some(Speaker_1), Some(<<"e", "n">>)>>,
      <<Some(Speaker_2), None>> }

TokenUniverse ==
    { Token(tt[2], sl[1], sl[2], tt[1]) : tt \in TimedTexts, sl \in SpeakerLanguages }

\* Inputs of the rendering runs: every form of the speaker field, and three
\* language forms, each with a text that carries its own spacing.
LanguageTexts ==
    { <<None, <<" ", "b", " ">> >>,
      <<Some(<<"e", "n">>), <<" ", "a", " ">> >>,
      <<Some(<<"z", "h">>), <<"c">> >> }

TextUniverse ==
    { Token(lt[2], s, lt[1], Timing(None, None, None)) :
        lt \in LanguageTexts,
        s \in {None, Some(<<>>), Some(Speaker_1), Some(Unknown)} }

\* Inputs of the time-bound runs: every combination of timing fields.
SpanUniverse ==
    { Token(<<"a">>, None, None, Timing(s, e, d)) :
        s \in {None, Some(0), Some(1000)},
        e \in {None, Some(0), Some(500), Some(1250)},
        d \in {None, Some(0), Some(250), Some(0 - 250)} }

RECURSIVE SeqsUpTo(_, _)
SeqsUpTo(S, n) ==
    IF n = 0 THEN { <<>> }
    ELSE LET shorter == SeqsUpTo(S, n - 1)
         IN  shorter \cup { Append(q, x) : q \in { r \in shorter : Len(r) = n - 1 }, x \in S }

GapChoices == {100, 1500}

\* Arguments of the time formatters: hours below, at and beyond a day, and
\* minutes, seconds and milliseconds at both ends of their ranges.
MsValues ==
    { h * 3600000 + m * 60000 + sec * 1000 + f :
        h \in {0, 1, 23, 24, MaxHours}, m \in {0, 1, 59}, sec \in {0, 1, 59},
        f \in {0, 1, 500, 999} }

ChunkChoices == {1000, 1400, 2000}

DEFAULT_SEGMENT_GAP_MS == 1500

DEFAULT_CHUNK_DURATION_MS == 5000

-----------------------------------------------------------------------------
(* token_time_bounds *)

\* Variant: end_ms read with "or", so that an end_ms of 0 counts as absent.
token_time_bounds_FalsyEnd(token) ==
    LET start_ms == IF Has(token, "start_ms") /\ token["start_ms"] # 0
                    THEN token["start_ms"] ELSE 0
        end_ms == IF Has(token, "end_ms") /\ token["end_ms"] # 0 THEN token["end_ms"]
                  ELSE IF Has(token, "duration_ms") THEN start_ms + token["duration_ms"]
                  ELSE start_ms
    IN  <<start_ms, end_ms>>

\* Variant: an end before the start is pulled up to the start.
token_time_bounds_Clamp(token) ==
    LET start_ms == IF Has(token, "start_ms") /\ token["start_ms"] # 0
                    THEN token["start_ms"] ELSE 0
        end_ms == IF Has(token, "end_ms") THEN token["end_ms"]
                  ELSE IF Has(token, "duration_ms") THEN start_ms + token["duration_ms"]
                  ELSE start_ms
    IN  <<start_ms, Max(start_ms, end_ms)>>

token_time_bounds(token) ==
    LET start_ms == IF Has(token, "start_ms") /\ token["start_ms"] # 0
                    THEN token["start_ms"] ELSE 0
        end_ms == IF Has(token, "end_ms") THEN token["end_ms"]
                  ELSE IF Has(token, "duration_ms") THEN start_ms + token["duration_ms"]
                  ELSE start_ms
    IN  <<start_ms, end_ms>>

\* Variant: token.get("speaker", "unknown"), which keeps an empty speaker.
ResolvedSpeaker_KeepEmpty(token) ==
    IF Has(token, "speaker") THEN token["speaker"] ELSE Unknown

\* token.get("speaker") or "unknown"
ResolvedSpeaker(token) ==
    IF Has(token, "speaker") /\ token["speaker"] # <<>> THEN token["speaker"] ELSE Unknown

-----------------------------------------------------------------------------
(* group_tokens_by_speaker *)

NewSegment(token) ==
    [speaker |-> ResolvedSpeaker(token),
     start_ms |-> token_time_bounds(token)[1],
     end_ms |-> token_time_bounds(token)[2],
     text |-> token["text"]]

\* Variant: segments are broken by pauses only.
SpeakerChanged_Never(speaker, segment) == FALSE

SpeakerChanged(speaker, segment) == speaker # segment.speaker

\* Variant: the pause test with >= in place of >.
LongPause_Ge(start_ms, segment, gap) == start_ms - segment.end_ms >= gap

LongPause(start_ms, segment, gap) == start_ms - segment.end_ms > gap

\* Variant: the two conditions joined by "and".
ShouldBreak_And(speaker_changed, long_pause) == speaker_changed /\ long_pause

ShouldBreak(speaker_changed, long_pause) == speaker_changed \/ long_pause

\* Variant: a space inserted between the texts of merged tokens.
ExtendSegment_Sep(segment, token) ==
    [segment EXCEPT !.text = @ \o <<" ">> \o token["text"],
                    !.end_ms = Max(@, token_time_bounds(token)[2])]

\* Variant: the start of the segment follows the earliest token merged.
ExtendSegment_MinStart(segment, token) ==
    [segment EXCEPT !.text = @ \o token["text"],
                    !.start_ms = IF token_time_bounds(token)[1] < @
                                 THEN token_time_bounds(token)[1] ELSE @,
                    !.end_ms = Max(@, token_time_bounds(token)[2])]

\* Variant: the end of the segment is the end of the token merged last.
ExtendSegment_LastEnd(segment, token) ==
    [segment EXCEPT !.text = @ \o token["text"],
                    !.end_ms = token_time_bounds(token)[2]]

ExtendSegment(segment, token) ==
    [segment EXCEPT !.text = @ \o token["text"],
                    !.end_ms = Max(@, token_time_bounds(token)[2])]

\* Variant: a new segment after a break keeps the running maximum of the
\* segment before it as its end.
GroupBody_CarryEnd(segs, cur, token, gap) ==
    IF cur = None THEN <<segs, Some(NewSegment(token))>>
    ELSE IF ShouldBreak(SpeakerChanged(ResolvedSpeaker(token), cur[1]),
                        LongPause(token_time_bounds(token)[1], cur[1], gap))
         THEN <<Append(segs, cur[1]),
                Some([NewSegment(token) EXCEPT !.end_ms = Max(@, cur[1].end_ms)])>>
         ELSE <<segs, Some(ExtendSegment(cur[1], token))>>

\* Variant: every token after the first closes the current segment.
GroupBody_BreakEach(segs, cur, token, gap) ==
    IF cur = None THEN <<segs, Some(NewSegment(token))>>
    ELSE <<Append(segs, cur[1]), Some(NewSegment(token))>>

\* One iteration of the for loop: the pair <<segments, current_segment>> after it.
GroupBody(segs, cur, token, gap) ==
    IF cur = None THEN <<segs, Some(NewSegment(token))>>
    ELSE IF ShouldBreak(SpeakerChanged(ResolvedSpeaker(token), cur[1]),
                        LongPause(token_time_bounds(token)[1], cur[1], gap))
         THEN <<Append(segs, cur[1]), Some(NewSegment(token))>>
         ELSE <<segs, Some(ExtendSegment(cur[1], token))>>

\* After the loop: the current segment, if any, is appended.
GroupFinish(segs, cur) == IF cur # None THEN Append(segs, cur[1]) ELSE segs

RECURSIVE GroupLoop(_, _, _, _)
GroupLoop(segs, cur, tokens, gap) ==
    IF tokens = <<>> THEN GroupFinish(segs, cur)
    ELSE LET st == GroupBody(segs, cur, Head(tokens), gap)
         IN  GroupLoop(st[1], st[2], Tail(tokens), gap)

group_tokens_by_speaker(tokens, gap) == GroupLoop(<<>>, None, tokens, gap)

-----------------------------------------------------------------------------
(* render_tokens *)

SpeakerHeader(speaker) == <<"S", "p", "e", "a", "k", "e", "r", " ">> \o speaker \o <<":">>

ParagraphBreak == <<"\n", "\n">>

LanguageMarker(language) == <<"\n", "[">> \o language \o <<"]", " ">>

\* Variant: no paragraph break before a header.
HeaderParts_NoBreak(cur_speaker, speaker) == <<SpeakerHeader(speaker)>>

\* The parts a speaker change appends: the paragraph break, unless this is
\* the first block, and the header.
HeaderParts(cur_speaker, speaker) ==
    (IF cur_speaker # None THEN <<ParagraphBreak>> ELSE <<>>) \o <<SpeakerHeader(speaker)>>

\* Variant: the leading whitespace of every token's text is stripped.
RenderBody_StripAlways(parts, cur_speaker, cur_language, token) ==
    LET speaker == ResolvedSpeaker(token)
        changed == Some(speaker) # cur_speaker
        parts1 == IF changed THEN parts \o HeaderParts(cur_speaker, speaker) ELSE parts
        speaker1 == IF changed THEN Some(speaker) ELSE cur_speaker
        language1 == IF changed THEN None ELSE cur_language
        marked == Has(token, "language") /\ Some(token["language"]) # language1
        parts2 == IF marked THEN Append(parts1, LanguageMarker(token["language"])) ELSE parts1
        language2 == IF marked THEN Some(token["language"]) ELSE language1
        text == LStrip(token["text"])
    IN  <<Append(parts2, text), speaker1, language2>>

\* Variant: the tracked language survives a speaker change.
RenderBody_KeepLanguage(parts, cur_speaker, cur_language, token) ==
    LET speaker == ResolvedSpeaker(token)
        changed == Some(speaker) # cur_speaker
        parts1 == IF changed THEN parts \o HeaderParts(cur_speaker, speaker) ELSE parts
        speaker1 == IF changed THEN Some(speaker) ELSE cur_speaker
        language1 == cur_language
        marked == Has(token, "language") /\ Some(token["language"]) # language1
        parts2 == IF marked THEN Append(parts1, LanguageMarker(token["language"])) ELSE parts1
        language2 == IF marked THEN Some(token["language"]) ELSE language1
        text == IF marked THEN LStrip(token["text"]) ELSE token["text"]
    IN  <<Append(parts2, text), speaker1, language2>>

\* One iteration: <<text_parts, current_speaker, current_language>> after it.
RenderBody(parts, cur_speaker, cur_language, token) ==
    LET speaker == ResolvedSpeaker(token)
        changed == Some(speaker) # cur_speaker
        parts1 == IF changed THEN parts \o HeaderParts(cur_speaker, speaker) ELSE parts
        speaker1 == IF changed THEN Some(speaker) ELSE cur_speaker
        language1 == IF changed THEN None ELSE cur_language
        marked == Has(token, "language") /\ Some(token["language"]) # language1
        parts2 == IF marked THEN Append(parts1, LanguageMarker(token["language"])) ELSE parts1
        language2 == IF marked THEN Some(token["language"]) ELSE language1
        text == IF marked THEN LStrip(token["text"]) ELSE token["text"]
    IN  <<Append(parts2, text), speaker1, language2>>

\* Variant: the transcript closed with a newline.
RenderFinish_Newline(parts) == Join(parts) \o <<"\n">>

RenderFinish(parts) == Join(parts)

RECURSIVE RenderLoop(_, _, _, _)
RenderLoop(parts, cur_speaker, cur_language, tokens) ==
    IF tokens = <<>> THEN RenderFinish(parts)
    ELSE LET st == RenderBody(parts, cur_speaker, cur_language, Head(tokens))
         IN  RenderLoop(st[1], st[2], st[3], Tail(tokens))

render_tokens(tokens) == RenderLoop(<<>>, None, None, tokens)

-----------------------------------------------------------------------------
(* format_time, format_srt_time *)

\* seconds = ms / 1000.0; hours = int(seconds // 3600);
\* minutes = int((seconds % 3600) // 60); secs = seconds % 60, shown as 06.3f.
\* For an integer argument below 10^15 the float quotient is close enough to
\* ms/1000 that the floors and the three printed decimals are those of exact
\* arithmetic; the arguments drawn here stay far below that.
\* Variant: the hour field wraps at a day.
format_time_Wrap24(t) ==
    LET hours == (t \div 3600000) % 24
        minutes == (t % 3600000) \div 60000
        secs == t % 60000
    IN  ZeroPad(hours, 2) \o <<":">> \o ZeroPad(minutes, 2) \o <<":">>
            \o ZeroPad(secs \div 1000, 2) \o <<".">> \o ZeroPad(secs % 1000, 3)

format_time(t) ==
    LET hours == t \div 3600000
        minutes == (t % 3600000) \div 60000
        secs == t % 60000
    IN  ZeroPad(hours, 2) \o <<":">> \o ZeroPad(minutes, 2) \o <<":">>
            \o ZeroPad(secs \div 1000, 2) \o <<".">> \o ZeroPad(secs % 1000, 3)

\* Variant: the seconds field is rounded to the nearest second.
format_srt_time_Round(t) ==
    LET hours == t \div 3600000
        minutes == (t % 3600000) \div 60000
        secs == ((t % 60000) + 500) \div 1000
        millisecs == t % 1000
    IN  ZeroPad(hours, 2) \o <<":">> \o ZeroPad(minutes, 2) \o <<":">>
            \o ZeroPad(secs, 2) \o <<",">> \o ZeroPad(millisecs, 3)

format_srt_time(t) ==
    LET hours == t \div 3600000
        minutes == (t % 3600000) \div 60000
        secs == (t % 60000) \div 1000
        millisecs == t % 1000
    IN  ZeroPad(hours, 2) \o <<":">> \o ZeroPad(minutes, 2) \o <<":">>
            \o ZeroPad(secs, 2) \o <<",">> \o ZeroPad(millisecs, 3)

Arrow == <<" ", "-", "-", ">", " ">>

-----------------------------------------------------------------------------
(* render_tokens_with_timestamps *)

\* Variant: the timestamped renderer segmenting with another gap.
TimestampsGap_Other == CHOOSE g \in GapChoices : g # DEFAULT_SEGMENT_GAP_MS

\* The gap the timestamped renderer segments with: it calls
\* group_tokens_by_speaker(final_tokens) and so takes the default.
TimestampsGap == DEFAULT_SEGMENT_GAP_MS

SegmentBlock(segment, segment_text) ==
    <<"[">> \o format_time(segment.start_ms) \o Arrow \o format_time(segment.end_ms)
        \o <<"]", " ">> \o SpeakerHeader(segment.speaker) \o <<"\n">>
        \o segment_text \o <<"\n">>

\* Variant: a block also for a segment that is blank after stripping.
TimestampsBody_NoSkip(parts, segment) ==
    Append(parts, SegmentBlock(segment, Strip(segment.text)))

\* One iteration over a segment: text_parts after it.
TimestampsBody(parts, segment) ==
    LET segment_text == Strip(segment.text)
    IN  IF segment_text = <<>> THEN parts
        ELSE Append(parts, SegmentBlock(segment, segment_text))

TimestampsFinish(parts) == Strip(JoinWith(<<"\n">>, parts))

RECURSIVE TimestampsLoop(_, _)
TimestampsLoop(parts, segs) ==
    IF segs = <<>> THEN TimestampsFinish(parts)
    ELSE TimestampsLoop(TimestampsBody(parts, Head(segs)), Tail(segs))

render_tokens_with_timestamps(tokens) ==
    LET segs == group_tokens_by_speaker(tokens, TimestampsGap)
    IN  IF segs = <<>> THEN <<>> ELSE TimestampsLoop(<<>>, segs)

-----------------------------------------------------------------------------
(* tokens_to_srt *)

\* Variant: the duration test with < in place of <=.
FitsChunk_Strict(end_ms, start_of_chunk, duration) == (end_ms - start_of_chunk) < duration

FitsChunk(end_ms, start_of_chunk, duration) == (end_ms - start_of_chunk) <= duration

\* The three parts written for a chunk; sep is "\n\n" inside the loop and
\* "\n" for the final chunk.
SrtCaption(index, start_ms, end_ms, texts, sep) ==
    << NatStr(index) \o <<"\n">>,
       format_srt_time(start_ms) \o Arrow \o format_srt_time(end_ms) \o <<"\n">>,
       Strip(Join(texts)) \o sep >>

\* Variant: the token that fails the test closes the chunk and is not kept.
SrtBody_DropOverflow(st, token, duration) ==
    LET start_ms == token_time_bounds(token)[1]
        end_ms == token_time_bounds(token)[2]
        text == token["text"]
    IN  IF st.chunk_start_ms = None
        THEN [st EXCEPT !.chunk_start_ms = Some(start_ms),
                        !.chunk_tokens = <<text>>,
                        !.chunk_end_ms = Some(end_ms)]
        ELSE IF FitsChunk(end_ms, st.chunk_start_ms[1], duration)
        THEN [st EXCEPT !.chunk_tokens = Append(@, text),
                        !.chunk_end_ms = Some(end_ms)]
        ELSE [srt_parts |-> st.srt_parts
                  \o SrtCaption(st.chunk_index, st.chunk_start_ms[1], st.chunk_end_ms[1],
                                st.chunk_tokens, <<"\n", "\n">>),
              chunk_index |-> st.chunk_index + 1,
              chunk_start_ms |-> Some(start_ms),
              chunk_tokens |-> <<>>,
              chunk_end_ms |-> Some(end_ms)]

\* Variant: each text is shown with the speaker who said it.
SrtBody_SpeakerLabel(st, token, duration) ==
    LET start_ms == token_time_bounds(token)[1]
        end_ms == token_time_bounds(token)[2]
        text == ResolvedSpeaker(token) \o <<":">> \o token["text"]
    IN  IF st.chunk_start_ms = None
        THEN [st EXCEPT !.chunk_start_ms = Some(start_ms),
                        !.chunk_tokens = <<text>>,
                        !.chunk_end_ms = Some(end_ms)]
        ELSE IF FitsChunk(end_ms, st.chunk_start_ms[1], duration)
        THEN [st EXCEPT !.chunk_tokens = Append(@, text),
                        !.chunk_end_ms = Some(end_ms)]
        ELSE [srt_parts |-> st.srt_parts
                  \o SrtCaption(st.chunk_index, st.chunk_start_ms[1], st.chunk_end_ms[1],
                                st.chunk_tokens, <<"\n", "\n">>),
              chunk_index |-> st.chunk_index + 1,
              chunk_start_ms |-> Some(start_ms),
              chunk_tokens |-> <<text>>,
              chunk_end_ms |-> Some(end_ms)]

\* Variant: a rolling window, the anchor moving to each token that is added.
SrtBody_Rolling(st, token, duration) ==
    LET start_ms == token_time_bounds(token)[1]
        end_ms == token_time_bounds(token)[2]
        text == token["text"]
    IN  IF st.chunk_start_ms = None
        THEN [st EXCEPT !.chunk_start_ms = Some(start_ms),
                        !.chunk_tokens = <<text>>,
                        !.chunk_end_ms = Some(end_ms)]
        ELSE IF FitsChunk(end_ms, st.chunk_start_ms[1], duration)
        THEN [st EXCEPT !.chunk_start_ms = Some(start_ms),
                        !.chunk_tokens = Append(@, text),
                        !.chunk_end_ms = Some(end_ms)]
        ELSE [srt_parts |-> st.srt_parts
                  \o SrtCaption(st.chunk_index, st.chunk_start_ms[1], st.chunk_end_ms[1],
                                st.chunk_tokens, <<"\n", "\n">>),
              chunk_index |-> st.chunk_index + 1,
              chunk_start_ms |-> Some(start_ms),
              chunk_tokens |-> <<text>>,
              chunk_end_ms |-> Some(end_ms)]

\* One iteration: the record of the loop's variables after it.
SrtBody(st, token, duration) ==
    LET start_ms == token_time_bounds(token)[1]
        end_ms == token_time_bounds(token)[2]
        text == token["text"]
    IN  IF st.chunk_start_ms = None
        THEN [st EXCEPT !.chunk_start_ms = Some(start_ms),
                        !.chunk_tokens = <<text>>,
                        !.chunk_end_ms = Some(end_ms)]
        ELSE IF FitsChunk(end_ms, st.chunk_start_ms[1], duration)
        THEN [st EXCEPT !.chunk_tokens = Append(@, text),
                        !.chunk_end_ms = Some(end_ms)]
        ELSE [srt_parts |-> st.srt_parts
                  \o SrtCaption(st.chunk_index, st.chunk_start_ms[1], st.chunk_end_ms[1],
                                st.chunk_tokens, <<"\n", "\n">>),
              chunk_index |-> st.chunk_index + 1,
              chunk_start_ms |-> Some(start_ms),
              chunk_tokens |-> <<text>>,
              chunk_end_ms |-> Some(end_ms)]

\* Variant: the final chunk written with the blank-line separator too.
SrtFinish_BlankLine(st) ==
    IF st.chunk_tokens # <<>>
    THEN Join(st.srt_parts
              \o SrtCaption(st.chunk_index, st.chunk_start_ms[1], st.chunk_end_ms[1],
                            st.chunk_tokens, <<"\n", "\n">>))
    ELSE Join(st.srt_parts)

SrtFinish(st) ==
    IF st.chunk_tokens # <<>>
    THEN Join(st.srt_parts
              \o SrtCaption(st.chunk_index, st.chunk_start_ms[1], st.chunk_end_ms[1],
                            st.chunk_tokens, <<"\n">>))
    ELSE Join(st.srt_parts)

SrtStart ==
    [srt_parts |-> <<>>, chunk_index |-> 1, chunk_tokens |-> <<>>,
     chunk_start_ms |-> None, chunk_end_ms |-> None]

RECURSIVE SrtLoop(_, _, _)
SrtLoop(st, tokens, duration) ==
    IF tokens = <<>> THEN SrtFinish(st)
    ELSE SrtLoop(SrtBody(st, Head(tokens), duration), Tail(tokens), duration)

tokens_to_srt(tokens, duration) ==
    IF tokens = <<>> THEN <<>> ELSE SrtLoop(SrtStart, tokens, duration)

-----------------------------------------------------------------------------
(* download_logo *)

Providers == {"openai", "anthropic"}

\* output_dir / f"{provider_id}.svg"
OutputPath(provider_id) == <<"output_dir", provider_id, ".svg">>

OutputPaths == { OutputPath(provider_id) : provider_id \in Providers }

\* LOGO_URL_TEMPLATE.format(provider_id=provider_id)
LogoUrl(provider_id) == <<"https://models.dev/logos/", provider_id, ".svg">>

OldContent == "old svg"

\* resp.content of a successful request
NewContent == "new svg"

\* What requests.get followed by raise_for_status can raise.
RequestErrors == {"timeout", "404"}

\* How output_path.write_bytes(resp.content) can end: the content is written;
\* the open fails and the file is as before; or the open truncates the file
\* and the write fails.
WriteOutcomes == {"written", "open failed", "write failed"}

\* The state of one download_logo call: at is "idle" before the call,
\* "request" before requests.get, "write" before write_bytes, "done" after
\* the return.
NotCalled == [at |-> "idle", resp |-> None, status |-> None]

\* Variant: an existing file is skipped whatever force says.
ShouldSkip_IgnoreForce(exists, force_flag) == exists

\* output_path.exists() and not force
ShouldSkip(exists, force_flag) == exists /\ ~force_flag

\* download_logo up to the first return: the test on the existing file.
CallDownloadLogo(provider_id) ==
    /\ download[provider_id].at = "idle"
    /\ IF ShouldSkip(files[OutputPath(provider_id)] # None, force)
       THEN download' = [download EXCEPT ![provider_id] =
                             [at |-> "done", resp |-> None, status |-> Some("skipped")]]
       ELSE download' = [download EXCEPT ![provider_id].at = "request"]
    /\ UNCHANGED <<notLogoVars, force, files, http_log>>

\* requests.get(url) and resp.raise_for_status(), with the except branch.
HttpGet(provider_id) ==
    /\ download[provider_id].at = "request"
    /\ http_log' = Append(http_log, LogoUrl(provider_id))
    /\ \/ download' = [download EXCEPT ![provider_id] =
                            [at |-> "write", resp |-> Some(NewContent), status |-> None]]
       \/ \E exc \in RequestErrors :
              download' = [download EXCEPT ![provider_id] =
                              [at |-> "done", resp |-> None,
                               status |-> Some(<<"error: ", exc>>)]]
    /\ UNCHANGED <<notLogoVars, force, files>>

\* output_path.write_bytes(resp.content), with the except branch.
WriteBytes(provider_id) ==
    /\ download[provider_id].at = "write"
    /\ \E outcome \in WriteOutcomes :
          /\ files' = CASE outcome = "written" ->
                               [files EXCEPT ![OutputPath(provider_id)] =
                                    download[provider_id].resp]
                         [] outcome = "open failed" -> files
                         [] outcome = "write failed" ->
                               [files EXCEPT ![OutputPath(provider_id)] = Some("")]
          /\ download' = [download EXCEPT ![provider_id] =
                              [at |-> "done", resp |-> download[provider_id].resp,
                               status |-> IF outcome = "written" THEN Some("downloaded")
                                          ELSE Some(<<"error: write failed: ", outcome>>)]]
    /\ UNCHANGED <<notLogoVars, force, http_log>>

NextLogo ==
    \/ \E provider_id \in Providers : CallDownloadLogo(provider_id)
    \/ \E provider_id \in Providers : HttpGet(provider_id)
    \/ \E provider_id \in Providers : WriteBytes(provider_id)

-----------------------------------------------------------------------------
(* download_provider_logos.main *)

\* The values of --providers: not given, or the one id "openai".
RequestedChoices == {None, Some({"openai"})}

\* Variant: every id of the catalog is kept, repeated or not.
DistinctIds_All(ids) == ids

\* Lines 136-141: the ids in order of first appearance, each once.
RECURSIVE DistinctIds(_)
DistinctIds(ids) ==
    IF ids = <<>> THEN <<>>
    ELSE LET front == DistinctIds(SubSeq(ids, 1, Len(ids) - 1))
             last == ids[Len(ids)]
         IN  IF \E k \in 1..Len(front) : front[k] = last THEN front
             ELSE Append(front, last)

\* Lines 142-144: the --providers filter.
FilterRequested(ids, req) ==
    IF req = None THEN ids ELSE SelectSeq(ids, LAMBDA p : p \in req[1])

\* Lines 168-170: the counts over statuses.values().
CountsOf(dict) ==
    LET downloaded == Cardinality({p \in DOMAIN dict : dict[p] = "downloaded"})
        skips == Cardinality({p \in DOMAIN dict : dict[p] = "skipped"})
    IN  [downloaded |-> downloaded, skipped |-> skips,
         failed |-> Cardinality(DOMAIN dict) - downloaded - skips]

\* Lines 130-148: the catalog is fetched, the ids are made distinct and
\* filtered; a failed fetch or an empty list ends main with 1.
MainStart ==
    /\ main_pc = "idle"
    /\ \/ /\ provider_ids' = FilterRequested(DistinctIds(catalog_ids), requested)
          /\ IF provider_ids' = <<>>
             THEN main_pc' = "done" /\ exit_code' = Some(1)
             ELSE main_pc' = "submit" /\ exit_code' = exit_code
       \/ /\ main_pc' = "done"
          /\ exit_code' = Some(1)
          /\ provider_ids' = provider_ids
    /\ UNCHANGED <<notMainVars, force, files, http_log, catalog_ids, requested, futures,
                   completion, statuses, summary>>

\* Lines 151-157: one download_logo call is submitted per provider id.
Submit ==
    /\ main_pc = "submit"
    /\ futures' = [k \in 1..Len(provider_ids) |->
                      [provider_id |-> provider_ids[k], call |-> NotCalled]]
    /\ main_pc' = "pool"
    /\ UNCHANGED <<notMainVars, force, files, http_log, catalog_ids, requested, provider_ids,
                   completion, statuses, summary, exit_code>>

\* A worker runs download_logo up to the test on the existing file.
WorkerCall(k) ==
    /\ main_pc = "pool"
    /\ futures[k].call.at = "idle"
    /\ futures' = [futures EXCEPT ![k].call =
                      IF ShouldSkip(files[OutputPath(futures[k].provider_id)] # None, force)
                      THEN [at |-> "done", resp |-> None, status |-> Some("skipped")]
                      ELSE [@ EXCEPT !.at = "request"]]
    /\ UNCHANGED <<notMainVars, force, files, http_log, catalog_ids, requested, main_pc,
                   provider_ids, completion, statuses, summary, exit_code>>

\* A worker's requests.get and raise_for_status.
WorkerGet(k) ==
    /\ main_pc = "pool"
    /\ futures[k].call.at = "request"
    /\ http_log' = Append(http_log, LogoUrl(futures[k].provider_id))
    /\ \/ futures' = [futures EXCEPT ![k].call =
                           [at |-> "write", resp |-> Some(NewContent), status |-> None]]
       \/ \E exc \in RequestErrors :
              futures' = [futures EXCEPT ![k].call =
                             [at |-> "done", resp |-> None,
                              status |-> Some("error: " \o exc)]]
    /\ UNCHANGED <<notMainVars, force, files, catalog_ids, requested, main_pc, provider_ids,
                   completion, statuses, summary, exit_code>>

\* A worker's write_bytes.
WorkerWrite(k) ==
    /\ main_pc = "pool"
    /\ futures[k].call.at = "write"
    /\ \E how \in WriteOutcomes :
          /\ files' = CASE how = "written" ->
                               [files EXCEPT ![OutputPath(futures[k].provider_id)] =
                                    futures[k].call.resp]
                         [] how = "open failed" -> files
                         [] how = "write failed" ->
                               [files EXCEPT ![OutputPath(futures[k].provider_id)] = Some("")]
          /\ futures' = [futures EXCEPT ![k].call =
                             [at |-> "done", resp |-> futures[k].call.resp,
                              status |-> IF how = "written" THEN Some("downloaded")
                                         ELSE Some("error: write failed: " \o how)]]
    /\ UNCHANGED <<notMainVars, force, http_log, catalog_ids, requested, main_pc, provider_ids,
                   completion, statuses, summary, exit_code>>

\* Lines 158-160: as_completed yields a finished future and its status is
\* stored under its provider id.
Collect(k) ==
    /\ main_pc = "pool"
    /\ futures[k].call.at = "done"
    /\ \A j \in 1..Len(completion) : completion[j] # k
    /\ completion' = Append(completion, k)
    /\ statuses' = [p \in DOMAIN statuses \cup {futures[k].provider_id} |->
                       IF p = futures[k].provider_id THEN futures[k].call.status[1]
                       ELSE statuses[p]]
    /\ UNCHANGED <<notMainVars, force, files, http_log, catalog_ids, requested, main_pc,
                   provider_ids, futures, summary, exit_code>>

\* Lines 168-177: every future was yielded; the counts and the exit code.
Summarize ==
    /\ main_pc = "pool"
    /\ Len(completion) = Len(futures)
    /\ summary' = Some(CountsOf(statuses))
    /\ exit_code' = Some(IF CountsOf(statuses).failed = 0 THEN 0 ELSE 1)
    /\ main_pc' = "done"
    /\ UNCHANGED <<notMainVars, force, files, http_log, catalog_ids, requested, provider_ids,
                   futures, completion, statuses>>

NextMain ==
    \/ MainStart
    \/ Submit
    \/ \E k \in 1..Len(futures) : WorkerCall(k)
    \/ \E k \in 1..Len(futures) : WorkerGet(k)
    \/ \E k \in 1..Len(futures) : WorkerWrite(k)
    \/ \E k \in 1..Len(futures) : Collect(k)
    \/ Summarize

\* No run of main.
NoMain ==
    /\ catalog_ids = <<>>
    /\ requested = None
    /\ main_pc = "idle"
    /\ provider_ids = <<>>
    /\ futures = <<>>
    /\ completion = <<>>
    /\ statuses = EmptyDict
    /\ summary = None
    /\ exit_code = None

-----------------------------------------------------------------------------
(* transcribe_local_file *)

\* files and transcriptions are the ids the service holds; status is the
\* status of the transcription.
EmptyService == [files |-> {}, transcriptions |-> {}, status |-> "none", context |-> None]

\* DEFAULT_CONTEXT, as one opaque piece of text.
DefaultContext == <<"DEFAULT_CONTEXT">>

\* The extra_context arguments: none, empty, blank, and a text with blanks
\* around it.
ExtraContexts == {None, Some(<<>>), Some(<<" ">>), Some(<<" ", "x", " ">>)}

\* Lines 73-75 and 83: "\n\n".join(context_parts)
ContextOf(extra) ==
    JoinWith(<<"\n", "\n">>,
             <<DefaultContext>> \o (IF extra # None /\ extra[1] # <<>>
                                    THEN <<Strip(extra[1])>> ELSE <<>>))

TheFileId == "file-1"

TheTranscriptionId == "transcription-1"

\* result["tokens"] of the transcript the service returns.
TranscriptTokens ==
    << Token(<<"H", "i", " ">>, Some(Speaker_1), Some(<<"e", "n">>),
             Timing(None, Some(500), None)),
       Token(<<"t", "h", "e", "r", "e">>, Some(Speaker_2), None,
             Timing(Some(600), None, Some(1300))) >>

\* No transcribe_local_file call.
NoTranscription ==
    /\ api_key = FALSE
    /\ audio_exists = FALSE
    /\ extra_context = None
    /\ transcribe_pc = "idle"
    /\ file_id = None
    /\ transcription_id = None
    /\ poll_count = 0
    /\ service = EmptyService
    /\ transcribed = None

\* An exception leaves the function.
Raise(exc) ==
    /\ transcribe_pc' = "raised"
    /\ transcribed' = Some(exc)

\* Lines 41-51: the API key and the audio file are checked.
TranscribeStart ==
    /\ transcribe_pc = "idle"
    /\ IF ~api_key THEN Raise("RuntimeError")
       ELSE IF ~audio_exists THEN Raise("FileNotFoundError")
       ELSE transcribe_pc' = "upload" /\ transcribed' = transcribed
    /\ UNCHANGED <<notTranscribeVars, api_key, audio_exists, extra_context, file_id, transcription_id,
                   poll_count, service>>

\* Lines 60-66: POST /v1/files and raise_for_status.
UploadFile ==
    /\ transcribe_pc = "upload"
    /\ \/ /\ service' = [service EXCEPT !.files = @ \cup {TheFileId}]
          /\ file_id' = Some(TheFileId)
          /\ transcribe_pc' = "create"
          /\ transcribed' = transcribed
       \/ /\ Raise("HTTPError")
          /\ UNCHANGED <<service, file_id>>
    /\ UNCHANGED <<notTranscribeVars, api_key, audio_exists, extra_context, transcription_id, poll_count>>

\* Lines 86-91: POST /v1/transcriptions and raise_for_status.
CreateTranscription ==
    /\ transcribe_pc = "create"
    /\ \/ /\ service' = [service EXCEPT !.transcriptions = @ \cup {TheTranscriptionId},
                                         !.status = "queued",
                                         !.context = Some(ContextOf(extra_context))]
          /\ transcription_id' = Some(TheTranscriptionId)
          /\ transcribe_pc' = "poll"
          /\ transcribed' = transcribed
       \/ /\ Raise("HTTPError")
          /\ UNCHANGED <<service, transcription_id>>
    /\ UNCHANGED <<notTranscribeVars, api_key, audio_exists, extra_context, file_id, poll_count>>

\* The service works on the transcription between two polls.
ServiceProgress ==
    /\ transcribe_pc = "poll"
    /\ \/ service.status = "queued" /\ service' = [service EXCEPT !.status = "processing"]
       \/ service.status = "processing" /\ service' = [service EXCEPT !.status = "completed"]
       \/ service.status = "processing" /\ service' = [service EXCEPT !.status = "error"]
    /\ UNCHANGED <<notTranscribeVars, api_key, audio_exists, extra_context, transcribe_pc, file_id,
                   transcription_id, poll_count, transcribed>>

\* Lines 101-125: one iteration of the polling loop.
Poll ==
    /\ transcribe_pc = "poll"
    /\ poll_count < MaxPolls
    /\ \/ /\ poll_count' = poll_count + 1
          /\ CASE service.status = "completed" ->
                      transcribe_pc' = "get" /\ transcribed' = transcribed
               [] service.status = "error" -> Raise("Exception: Transcription failed")
               [] OTHER -> transcribe_pc' = "poll" /\ transcribed' = transcribed
       \/ /\ Raise("HTTPError")
          /\ poll_count' = poll_count
    /\ UNCHANGED <<notTranscribeVars, api_key, audio_exists, extra_context, file_id, transcription_id,
                   service>>

\* Lines 130-134: GET /v1/transcriptions/{id}/transcript and raise_for_status.
GetTranscript ==
    /\ transcribe_pc = "get"
    /\ \/ transcribe_pc' = "delete transcription" /\ transcribed' = transcribed
       \/ Raise("HTTPError")
    /\ UNCHANGED <<notTranscribeVars, api_key, audio_exists, extra_context, file_id, transcription_id,
                   poll_count, service>>

\* Line 139: session.delete of the transcription.  The response is not
\* looked at: the service may have deleted it or refused; a connection
\* failure raises.
DeleteTranscription ==
    /\ transcribe_pc = "delete transcription"
    /\ \/ /\ service' = [service EXCEPT !.transcriptions = @ \ {transcription_id[1]}]
          /\ transcribe_pc' = "delete file" /\ transcribed' = transcribed
       \/ /\ service' = service
          /\ transcribe_pc' = "delete file" /\ transcribed' = transcribed
       \/ /\ service' = service
          /\ Raise("ConnectionError")
    /\ UNCHANGED <<notTranscribeVars, api_key, audio_exists, extra_context, file_id, transcription_id,
                   poll_count>>

\* Line 140: session.delete of the uploaded file, in the same way.
DeleteFile ==
    /\ transcribe_pc = "delete file"
    /\ \/ /\ service' = [service EXCEPT !.files = @ \ {file_id[1]}]
          /\ transcribe_pc' = "render" /\ transcribed' = transcribed
       \/ /\ service' = service
          /\ transcribe_pc' = "render" /\ transcribed' = transcribed
       \/ /\ service' = service
          /\ Raise("ConnectionError")
    /\ UNCHANGED <<notTranscribeVars, api_key, audio_exists, extra_context, file_id, transcription_id,
                   poll_count>>

\* Lines 143-150: the transcript is rendered and the dict returned.
TranscribeReturn ==
    /\ transcribe_pc = "render"
    /\ transcribe_pc' = "returned"
    /\ transcribed' = Some([text |-> render_tokens(TranscriptTokens),
                        tokens |-> TranscriptTokens,
                        token_count |-> Len(TranscriptTokens)])
    /\ UNCHANGED <<notTranscribeVars, api_key, audio_exists, extra_context, file_id, transcription_id,
                   poll_count, service>>

NextTranscribe ==
    \/ TranscribeStart
    \/ UploadFile
    \/ CreateTranscription
    \/ ServiceProgress
    \/ Poll
    \/ GetTranscript
    \/ DeleteTranscription
    \/ DeleteFile
    \/ TranscribeReturn

-----------------------------------------------------------------------------
(* rename_bafenban: compute_plan, apply_plan *)

\* A file name of the directory.  With prefixed FALSE it is the download name
\* "<num> - <title>.mp3"; with prefixed TRUE it is the name build_new_name
\* makes, "八分半 - <num, three digits> - <title>.mp3", followed by " (dup<dup>)"
\* before the extension when dup is not 0.
FileName(prefixed, num, title, dup) ==
    [prefixed |-> prefixed, num |-> num, title |-> title, dup |-> dup]

Titles == {"A", "B"}

FileNames ==
    { FileName(FALSE, num, title, 0) : num \in 1..2, title \in Titles }
        \cup { FileName(TRUE, num, title, dup) : num \in 1..2, title \in Titles, dup \in {0, 2} }

StartChoices == {1, 2}

\* natural_key(name), lines 19-27, as a tuple that compares like the key
\* list: the text before the first number ("" sorts before "八分半 - "), the
\* number, the lower-cased title, and what follows the title: " (dup" sorts
\* before ".mp", then the dup number decides.
NaturalKey(name) ==
    << IF name.prefixed THEN 1 ELSE 0,
       name.num,
       IF name.title = "A" THEN 1 ELSE 2,
       IF name.dup = 0 THEN 0 ELSE 0 - 1,
       name.dup >>

RECURSIVE KeyLess(_, _)
KeyLess(a, b) ==
    /\ a # <<>>
    /\ \/ Head(a) < Head(b)
       \/ Head(a) = Head(b) /\ KeyLess(Tail(a), Tail(b))

\* list_mp3_files(dir_path), lines 100-105: the names sorted by natural_key.
RECURSIVE list_mp3_files(_)
list_mp3_files(names) ==
    IF names = {} THEN <<>>
    ELSE LET first == CHOOSE n \in names :
                          \A m \in names \ {n} : KeyLess(NaturalKey(n), NaturalKey(m))
         IN  <<first>> \o list_mp3_files(names \ {first})

\* clean_title_from_filename(name), lines 74-93: on these names the
\* extension, the "八分半 - " prefix, the leading number with its separator and
\* the bracketed " (dupN)" are removed, which leaves the title.
clean_title_from_filename(name) == name.title

\* build_new_name(idx, title, ext), lines 96-97
build_new_name(index, title) == FileName(TRUE, index, title, 0)

\* f"{os.path.splitext(new_name)[0]} (dup{dup_n}){ext}", line 121
DupCandidate(new_name, dup_n) == [new_name EXCEPT !.dup = dup_n]

\* Variant: only the targets already planned are avoided, not existing files.
Taken_PlannedOnly(candidate, used, names) == candidate \in used

\* candidate in used_targets or os.path.exists(os.path.join(dir_path, candidate))
Taken(candidate, used, names) == candidate \in used \/ candidate \in names

\* The while loop of lines 119-122: the first candidate that is not taken.
RECURSIVE FirstFree(_, _, _, _, _)
FirstFree(new_name, candidate, dup_n, used, names) ==
    IF Taken(candidate, used, names)
    THEN FirstFree(new_name, DupCandidate(new_name, dup_n), dup_n + 1, used, names)
    ELSE candidate

\* compute_plan(dir_path, start_index), lines 109-112
CallComputePlan ==
    /\ rename_pc = "idle"
    /\ rename_pc' = "plan"
    /\ listing' = list_mp3_files(directory)
    /\ plan' = <<>>
    /\ used_targets' = {}
    /\ idx' = start_index
    /\ position' = 1
    /\ UNCHANGED <<notRenameVars, directory, start_index, dry_run, renames, skipped>>

\* Lines 113-125: one iteration of the for loop.
PlanStep ==
    /\ rename_pc = "plan"
    /\ position <= Len(listing)
    /\ LET f == listing[position]
           new_name == build_new_name(idx, clean_title_from_filename(f))
           candidate == FirstFree(new_name, new_name, 2, used_targets, directory)
       IN  /\ plan' = Append(plan, <<f, candidate>>)
           /\ used_targets' = used_targets \cup {candidate}
    /\ idx' = idx + 1
    /\ position' = position + 1
    /\ UNCHANGED <<notRenameVars, directory, start_index, dry_run, rename_pc, listing, renames,
                   skipped>>

\* Line 126 and main's line 173: the plan is returned and handed to
\* apply_plan; with dry_run the plan is printed and nothing else happens.
CallApplyPlan ==
    /\ rename_pc = "plan"
    /\ position > Len(listing)
    /\ rename_pc' = IF dry_run THEN "done" ELSE "apply"
    /\ position' = 1
    /\ UNCHANGED <<notRenameVars, directory, start_index, dry_run, listing, plan, used_targets,
                   idx, renames, skipped>>

\* Lines 145-154: one iteration of the renaming loop.  os.rename of a source
\* that is not there raises.
ApplyStep ==
    /\ rename_pc = "apply"
    /\ position <= Len(plan)
    /\ LET src == plan[position][1]
           dst == plan[position][2]
       IN  IF src = dst
           THEN UNCHANGED <<directory, renames, skipped, rename_pc>>
           ELSE IF dst \in directory
           THEN /\ skipped' = Append(skipped, plan[position])
                /\ UNCHANGED <<directory, renames, rename_pc>>
           ELSE IF src \notin directory
           THEN /\ rename_pc' = "raised"
                /\ UNCHANGED <<directory, renames, skipped>>
           ELSE /\ directory' = (directory \ {src}) \cup {dst}
                /\ renames' = Append(renames, plan[position])
                /\ UNCHANGED <<skipped, rename_pc>>
    /\ position' = position + 1
    /\ UNCHANGED <<notRenameVars, start_index, dry_run, listing, plan, used_targets, idx>>

\* Line 155
ApplyReturn ==
    /\ rename_pc = "apply"
    /\ position > Len(plan)
    /\ rename_pc' = "done"
    /\ UNCHANGED <<notRenameVars, directory, start_index, dry_run, listing, plan, used_targets,
                   idx, position, renames, skipped>>

NextRename ==
    \/ CallComputePlan
    \/ PlanStep
    \/ CallApplyPlan
    \/ ApplyStep
    \/ ApplyReturn

\* No run of the renaming script.
NoRename ==
    /\ directory = {}
    /\ start_index = 1
    /\ dry_run = TRUE
    /\ rename_pc = "idle"
    /\ listing = <<>>
    /\ plan = <<>>
    /\ used_targets = {}
    /\ idx = 1
    /\ position = 1
    /\ renames = <<>>
    /\ skipped = <<>>

-----------------------------------------------------------------------------
(* The calls *)

InitWith(inputs, times) ==
    /\ final_tokens \in inputs
    /\ ms \in times
    /\ call = "none"
    /\ pc = "idle"
    /\ i = 1
    /\ gap_ms = DEFAULT_SEGMENT_GAP_MS
    /\ chunk_duration_ms = DEFAULT_CHUNK_DURATION_MS
    /\ segments = <<>>
    /\ current_segment = None
    /\ text_parts = <<>>
    /\ current_speaker = None
    /\ current_language = None
    /\ srt_parts = <<>>
    /\ chunk_index = 1
    /\ chunk_tokens = <<>>
    /\ chunk_start_ms = None
    /\ chunk_end_ms = None
    /\ result = None

\* No download_logo call and an empty output directory.
NoDownloads ==
    /\ force = FALSE
    /\ files = [path \in OutputPaths |-> None]
    /\ http_log = <<>>
    /\ download = [provider_id \in Providers |-> NotCalled]

Init == InitWith(SeqsUpTo(TokenUniverse, MaxTokens), {0}) /\ NoDownloads /\ NoTranscription /\ NoRename
        /\ NoMain

InitText == InitWith(SeqsUpTo(TextUniverse, MaxTokens), {0}) /\ NoDownloads /\ NoTranscription /\ NoRename
        /\ NoMain

InitSpan == InitWith(SeqsUpTo(SpanUniverse, MaxSpanTokens), {0}) /\ NoDownloads /\ NoTranscription /\ NoRename
        /\ NoMain

InitTime == InitWith({<<>>}, MsValues) /\ NoDownloads /\ NoTranscription /\ NoRename
        /\ NoMain

\* download_logo is called for each provider id, with either value of force,
\* on an output directory in which any of the logo files may already exist.
InitLogo ==
    /\ InitWith({<<>>}, {0})
    /\ force \in BOOLEAN
    /\ files \in [OutputPaths -> {None, Some(OldContent)}]
    /\ http_log = <<>>
    /\ download = [provider_id \in Providers |-> NotCalled]
    /\ NoTranscription
    /\ NoRename
    /\ NoMain

\* transcribe_local_file is called with or without SONIOX_API_KEY set, on an
\* existing or a missing audio file, against a service that holds nothing.
InitTranscribe ==
    /\ InitWith({<<>>}, {0})
    /\ NoDownloads
    /\ api_key \in BOOLEAN
    /\ audio_exists \in BOOLEAN
    /\ extra_context \in ExtraContexts
    /\ transcribe_pc = "idle"
    /\ file_id = None
    /\ transcription_id = None
    /\ poll_count = 0
    /\ service = EmptyService
    /\ transcribed = None
    /\ NoRename
    /\ NoMain

\* The script is run on a directory of up to MaxFiles mp3 files, raw or
\* already renamed, with a start index and with or without --apply.
InitRename ==
    /\ InitWith({<<>>}, {0})
    /\ NoDownloads
    /\ NoTranscription
    /\ NoMain
    /\ directory \in { d \in SUBSET FileNames : Cardinality(d) <= MaxFiles }
    /\ start_index \in StartChoices
    /\ dry_run \in BOOLEAN
    /\ rename_pc = "idle"
    /\ listing = <<>>
    /\ plan = <<>>
    /\ used_targets = {}
    /\ idx = start_index
    /\ position = 1
    /\ renames = <<>>
    /\ skipped = <<>>

\* main is run on a catalog that may yield an id more than once, with or
\* without --providers and --force, on an output directory in which any of
\* the logo files may already exist.
InitMain ==
    /\ InitWith({<<>>}, {0})
    /\ NoTranscription
    /\ NoRename
    /\ force \in BOOLEAN
    /\ files \in [OutputPaths -> {None, Some(OldContent)}]
    /\ http_log = <<>>
    /\ download = [provider_id \in Providers |-> NotCalled]
    /\ catalog_ids \in SeqsUpTo(Providers, MaxCatalog)
    /\ requested \in RequestedChoices
    /\ main_pc = "idle"
    /\ provider_ids = <<>>
    /\ futures = <<>>
    /\ completion = <<>>
    /\ statuses = EmptyDict
    /\ summary = None
    /\ exit_code = None

groupVars == <<segments, current_segment>>

renderVars == <<text_parts, current_speaker, current_language>>

srtVars == <<srt_parts, chunk_index, chunk_tokens, chunk_start_ms, chunk_end_ms>>

Running(f) == call = f /\ pc = "loop"

Returned(f) == call = f /\ pc = "done"

\* token_time_bounds(final_tokens[k])
CallBounds(k) ==
    /\ pc = "idle"
    /\ call' = "bounds"
    /\ i' = k
    /\ result' = Some(token_time_bounds(final_tokens[k]))
    /\ pc' = "done"
    /\ UNCHANGED <<ioVars, final_tokens, ms, gap_ms, chunk_duration_ms, groupVars, renderVars, srtVars>>

\* group_tokens_by_speaker(final_tokens, g)
CallGroup(g) ==
    /\ pc = "idle"
    /\ call' = "group"
    /\ gap_ms' = g
    /\ segments' = <<>>
    /\ current_segment' = None
    /\ i' = 1
    /\ pc' = "loop"
    /\ UNCHANGED <<ioVars, final_tokens, ms, chunk_duration_ms, renderVars, srtVars, result>>

GroupStep ==
    /\ Running("group")
    /\ i <= Len(final_tokens)
    /\ LET st == GroupBody(segments, current_segment, final_tokens[i], gap_ms)
       IN  /\ segments' = st[1]
           /\ current_segment' = st[2]
    /\ i' = i + 1
    /\ UNCHANGED <<ioVars, final_tokens, ms, call, pc, gap_ms, chunk_duration_ms, renderVars, srtVars,
                   result>>

GroupReturn ==
    /\ Running("group")
    /\ i > Len(final_tokens)
    /\ segments' = GroupFinish(segments, current_segment)
    /\ result' = Some(segments')
    /\ pc' = "done"
    /\ UNCHANGED <<ioVars, final_tokens, ms, call, i, gap_ms, chunk_duration_ms, current_segment,
                   renderVars, srtVars>>

\* render_tokens(final_tokens)
CallRender ==
    /\ pc = "idle"
    /\ call' = "render"
    /\ text_parts' = <<>>
    /\ current_speaker' = None
    /\ current_language' = None
    /\ i' = 1
    /\ pc' = "loop"
    /\ UNCHANGED <<ioVars, final_tokens, ms, gap_ms, chunk_duration_ms, groupVars, srtVars, result>>

RenderStep ==
    /\ Running("render")
    /\ i <= Len(final_tokens)
    /\ LET st == RenderBody(text_parts, current_speaker, current_language, final_tokens[i])
       IN  /\ text_parts' = st[1]
           /\ current_speaker' = st[2]
           /\ current_language' = st[3]
    /\ i' = i + 1
    /\ UNCHANGED <<ioVars, final_tokens, ms, call, pc, gap_ms, chunk_duration_ms, groupVars, srtVars,
                   result>>

RenderReturn ==
    /\ Running("render")
    /\ i > Len(final_tokens)
    /\ result' = Some(RenderFinish(text_parts))
    /\ pc' = "done"
    /\ UNCHANGED <<ioVars, final_tokens, ms, call, i, gap_ms, chunk_duration_ms, groupVars, renderVars,
                   srtVars>>

\* render_tokens_with_timestamps(final_tokens): the segments are computed by
\* the inner call, then the loop runs over them.
CallTimestamps ==
    /\ pc = "idle"
    /\ call' = "timestamps"
    /\ gap_ms' = TimestampsGap
    /\ segments' = group_tokens_by_speaker(final_tokens, TimestampsGap)
    /\ text_parts' = <<>>
    /\ i' = 1
    /\ IF segments' = <<>>
       THEN result' = Some(<<>>) /\ pc' = "done"
       ELSE result' = result /\ pc' = "loop"
    /\ UNCHANGED <<ioVars, final_tokens, ms, chunk_duration_ms, current_segment, current_speaker,
                   current_language, srtVars>>

TimestampsStep ==
    /\ Running("timestamps")
    /\ i <= Len(segments)
    /\ text_parts' = TimestampsBody(text_parts, segments[i])
    /\ i' = i + 1
    /\ UNCHANGED <<ioVars, final_tokens, ms, call, pc, gap_ms, chunk_duration_ms, groupVars,
                   current_speaker, current_language, srtVars, result>>

TimestampsReturn ==
    /\ Running("timestamps")
    /\ i > Len(segments)
    /\ result' = Some(TimestampsFinish(text_parts))
    /\ pc' = "done"
    /\ UNCHANGED <<ioVars, final_tokens, ms, call, i, gap_ms, chunk_duration_ms, groupVars, renderVars,
                   srtVars>>

SrtState ==
    [srt_parts |-> srt_parts, chunk_index |-> chunk_index, chunk_tokens |-> chunk_tokens,
     chunk_start_ms |-> chunk_start_ms, chunk_end_ms |-> chunk_end_ms]

SetSrtState(st) ==
    /\ srt_parts' = st.srt_parts
    /\ chunk_index' = st.chunk_index
    /\ chunk_tokens' = st.chunk_tokens
    /\ chunk_start_ms' = st.chunk_start_ms
    /\ chunk_end_ms' = st.chunk_end_ms

\* tokens_to_srt(final_tokens, d)
CallSrt(d) ==
    /\ pc = "idle"
    /\ call' = "srt"
    /\ chunk_duration_ms' = d
    /\ i' = 1
    /\ IF final_tokens = <<>>
       THEN result' = Some(<<>>) /\ pc' = "done" /\ UNCHANGED srtVars
       ELSE result' = result /\ pc' = "loop" /\ SetSrtState(SrtStart)
    /\ UNCHANGED <<ioVars, final_tokens, ms, gap_ms, groupVars, renderVars>>

SrtStep ==
    /\ Running("srt")
    /\ i <= Len(final_tokens)
    /\ SetSrtState(SrtBody(SrtState, final_tokens[i], chunk_duration_ms))
    /\ i' = i + 1
    /\ UNCHANGED <<ioVars, final_tokens, ms, call, pc, gap_ms, chunk_duration_ms, groupVars, renderVars,
                   result>>

SrtReturn ==
    /\ Running("srt")
    /\ i > Len(final_tokens)
    /\ result' = Some(SrtFinish(SrtState))
    /\ pc' = "done"
    /\ UNCHANGED <<ioVars, final_tokens, ms, call, i, gap_ms, chunk_duration_ms, groupVars, renderVars,
                   srtVars>>

Next ==
    \/ \E k \in 1..Len(final_tokens) : CallBounds(k)
    \/ \E g \in GapChoices : CallGroup(g)
    \/ GroupStep
    \/ GroupReturn
    \/ CallRender
    \/ RenderStep
    \/ RenderReturn
    \/ CallTimestamps
    \/ TimestampsStep
    \/ TimestampsReturn
    \/ \E d \in ChunkChoices : CallSrt(d)
    \/ SrtStep
    \/ SrtReturn

\* format_time(ms)
CallFormatTime ==
    /\ pc = "idle"
    /\ call' = "format_time"
    /\ result' = Some(format_time(ms))
    /\ pc' = "done"
    /\ UNCHANGED <<ioVars, final_tokens, ms, i, gap_ms, chunk_duration_ms, groupVars,
                   renderVars, srtVars>>

\* format_srt_time(ms)
CallFormatSrtTime ==
    /\ pc = "idle"
    /\ call' = "format_srt_time"
    /\ result' = Some(format_srt_time(ms))
    /\ pc' = "done"
    /\ UNCHANGED <<ioVars, final_tokens, ms, i, gap_ms, chunk_duration_ms, groupVars,
                   renderVars, srtVars>>

NextTime ==
    \/ CallFormatTime
    \/ CallFormatSrtTime

Spec == Init /\ [][Next]_vars

SpecTime == InitTime /\ [][NextTime]_vars

SpecLogo == InitLogo /\ [][NextLogo]_vars

SpecTranscribe == InitTranscribe /\ [][NextTranscribe]_vars

SpecRename == InitRename /\ [][NextRename]_vars

SpecMain == InitMain /\ [][NextMain]_vars

SpecText == InitText /\ [][Next]_vars

SpecSpan == InitSpan /\ [][Next]_vars

-----------------------------------------------------------------------------
(* Properties *)

StartOf(token) == token_time_bounds(token)[1]

EndOf(token) == token_time_bounds(token)[2]

RECURSIVE SumLen(_)
SumLen(strs) == IF strs = <<>> THEN 0 ELSE Len(Head(strs)) + SumLen(Tail(strs))

TextsOf(items) == [k \in 1..Len(items) |-> items[k]["text"]]

\* C1: token_time_bounds returns (start, end) with start the token's start_ms
\* when that is present and non-zero and 0 otherwise, and end the token's
\* end_ms whenever end_ms is present (0 included), else start + duration_ms
\* when duration_ms is present, else start; start_ms 1000 with only
\* duration_ms 250 gives (1000, 1250).
C1_TimeBounds ==
    Returned("bounds") =>
        LET token == final_tokens[i]
            start == result[1][1]
            end == result[1][2]
        IN  /\ (Has(token, "start_ms") /\ token["start_ms"] # 0) => start = token["start_ms"]
            /\ (~Has(token, "start_ms") \/ token["start_ms"] = 0) => start = 0
            /\ Has(token, "end_ms") => end = token["end_ms"]
            /\ (~Has(token, "end_ms") /\ Has(token, "duration_ms"))
                   => end = start + token["duration_ms"]
            /\ (~Has(token, "end_ms") /\ ~Has(token, "duration_ms")) => end = start
            /\ (DOMAIN token = {"text", "start_ms", "duration_ms"}
                    /\ token["start_ms"] = 1000 /\ token["duration_ms"] = 250)
                   => result = Some(<<1000, 1250>>)

\* A token with a non-zero start, a duration and an end_ms of 0 was resolved:
\* the present end_ms of 0 is the end.
C1_Witness ==
    /\ Returned("bounds")
    /\ DOMAIN final_tokens[i] = {"text", "start_ms", "end_ms", "duration_ms"}
    /\ final_tokens[i]["start_ms"] = 1000
    /\ final_tokens[i]["end_ms"] = 0
    /\ final_tokens[i]["duration_ms"] = 250
    /\ result = Some(<<1000, 0>>)

\* C2: for a token whose resolved speaker equals the current segment's
\* speaker, group_tokens_by_speaker starts a new segment if and only if the
\* token's start minus the current segment's end_ms is strictly greater than
\* gap_ms; a pause of exactly gap_ms extends the current segment.
C2_StrictGap ==
    [][ (/\ Running("group")
         /\ i <= Len(final_tokens)
         /\ current_segment # None
         /\ ResolvedSpeaker(final_tokens[i]) = current_segment[1].speaker)
        => LET pause == StartOf(final_tokens[i]) - current_segment[1].end_ms
           IN  /\ (pause > gap_ms) <=>
                      (/\ segments' = Append(segments, current_segment[1])
                       /\ current_segment' = Some(NewSegment(final_tokens[i])))
               /\ (pause <= gap_ms) <=>
                      (/\ segments' = segments
                       /\ current_segment'[1].start_ms = current_segment[1].start_ms
                       /\ current_segment'[1].text
                              = current_segment[1].text \o final_tokens[i]["text"])
      ]_vars

\* Three tokens of one speaker with gap_ms = 100: the second starts exactly
\* gap_ms after the first ends and is merged, the third starts gap_ms + 1
\* after the merged segment ends and opens a second segment.
C2_Witness ==
    /\ Returned("group")
    /\ Len(final_tokens) = 3
    /\ \A k \in 2..3 : ResolvedSpeaker(final_tokens[k]) = ResolvedSpeaker(final_tokens[1])
    /\ StartOf(final_tokens[2]) - EndOf(final_tokens[1]) = gap_ms
    /\ StartOf(final_tokens[3]) - Max(EndOf(final_tokens[1]), EndOf(final_tokens[2]))
           = gap_ms + 1
    /\ Len(result[1]) = 2
    /\ result[1][1].text = final_tokens[1]["text"] \o final_tokens[2]["text"]

\* C3: a token whose resolved speaker differs from the current segment's
\* speaker finalizes the current segment and starts a new one, whatever the
\* pause and gap_ms; a token merged into a segment has the segment's speaker.
C3_SpeakerChangeBreaks ==
    [][ (/\ Running("group")
         /\ i <= Len(final_tokens)
         /\ current_segment # None)
        => /\ ResolvedSpeaker(final_tokens[i]) # current_segment[1].speaker
                 => /\ segments' = Append(segments, current_segment[1])
                    /\ current_segment' = Some(NewSegment(final_tokens[i]))
           /\ segments' = segments
                 => /\ current_segment'[1].speaker = current_segment[1].speaker
                    /\ ResolvedSpeaker(final_tokens[i]) = current_segment[1].speaker
      ]_vars

\* Speakers 1, 2, 1 with pauses of at most gap_ms gave three segments.
C3_Witness ==
    /\ Returned("group")
    /\ Len(final_tokens) = 3
    /\ ResolvedSpeaker(final_tokens[1]) = Speaker_1
    /\ ResolvedSpeaker(final_tokens[2]) = Speaker_2
    /\ ResolvedSpeaker(final_tokens[3]) = Speaker_1
    /\ StartOf(final_tokens[2]) - EndOf(final_tokens[1]) <= gap_ms
    /\ StartOf(final_tokens[3]) - EndOf(final_tokens[2]) <= gap_ms
    /\ StartOf(final_tokens[2]) >= EndOf(final_tokens[1])
    /\ StartOf(final_tokens[3]) >= EndOf(final_tokens[2])
    /\ Len(result[1]) = 3

\* C4: group_tokens_by_speaker never drops, duplicates or reorders text: the
\* lengths of the segment texts sum to the lengths of the token texts, and
\* the segment texts concatenated in output order are the token texts
\* concatenated in input order, with no separator.
C4_TextPreserved ==
    Returned("group") =>
        /\ SumLen(TextsOf(result[1])) = SumLen(TextsOf(final_tokens))
        /\ Join(TextsOf(result[1])) = Join(TextsOf(final_tokens))

\* Three tokens with three different texts were grouped into two segments,
\* one of them merged from two tokens.
C4_Witness ==
    /\ Returned("group")
    /\ Len(final_tokens) = 3
    /\ Cardinality({final_tokens[k]["text"] : k \in 1..3}) = 3
    /\ Len(result[1]) = 2
    /\ result[1][2].text = final_tokens[2]["text"] \o final_tokens[3]["text"]

\* C5: on an empty token array render_tokens returns "",
\* group_tokens_by_speaker returns [], render_tokens_with_timestamps returns
\* "" and tokens_to_srt returns ""; each call returns without running a loop
\* iteration.
C5_EmptyInput ==
    (final_tokens = <<>> /\ call \in {"render", "group", "timestamps", "srt"})
        => /\ pc = "done" => result = Some(<<>>)
           /\ pc = "loop" => (i = 1 /\ call \in {"render", "group"})

\* render_tokens returned on the empty token array.
C5_Witness ==
    /\ final_tokens = <<>>
    /\ Returned("render")
    /\ result = Some(<<>>)

\* The contiguous runs of tokens that went into each output segment: a run
\* ends where the loop body appends a segment.
RECURSIVE RunsLoop(_, _, _, _, _, _)
RunsLoop(runs, run, segs, cur, tokens, gap) ==
    IF tokens = <<>> THEN (IF run = <<>> THEN runs ELSE Append(runs, run))
    ELSE LET st == GroupBody(segs, cur, Head(tokens), gap)
             broke == Len(st[1]) > Len(segs)
         IN  RunsLoop(IF broke THEN Append(runs, run) ELSE runs,
                      IF broke THEN <<Head(tokens)>> ELSE Append(run, Head(tokens)),
                      st[1], st[2], Tail(tokens), gap)

SegmentRuns(tokens, gap) == RunsLoop(<<>>, <<>>, <<>>, None, tokens, gap)

\* C6: for every segment S of group_tokens_by_speaker(tokens, gap_ms),
\* grouping exactly the contiguous tokens that formed S with the same gap_ms
\* yields one segment, equal to S in speaker, start_ms, end_ms and text.
C6_ResegmentIdempotent ==
    Returned("group") =>
        LET runs == SegmentRuns(final_tokens, gap_ms)
        IN  /\ Len(runs) = Len(result[1])
            /\ Join(runs) = final_tokens
            /\ \A k \in 1..Len(runs) :
                   group_tokens_by_speaker(runs[k], gap_ms) = <<result[1][k]>>

\* Three tokens gave two segments, the second merged from the last two
\* tokens, whose first ends before the first segment does.
C6_Witness ==
    /\ Returned("group")
    /\ Len(final_tokens) = 3
    /\ SegmentRuns(final_tokens, gap_ms) = << <<final_tokens[1]>>, <<final_tokens[2], final_tokens[3]>> >>
    /\ EndOf(final_tokens[2]) < EndOf(final_tokens[1])
    /\ Len(result[1]) = 2

IsHeader(part) ==
    /\ Len(part) >= 9
    /\ SubSeq(part, 1, 8) = <<"S", "p", "e", "a", "k", "e", "r", " ">>
    /\ part[Len(part)] = ":"

HeaderCount(parts) == Cardinality({k \in 1..Len(parts) : IsHeader(parts[k])})

\* C7: render_tokens emits the header 'Speaker <id>:' at the first token and
\* at exactly those later tokens whose resolved speaker differs from the
\* previous token's, whatever the timing fields; every header but the first
\* directly follows a paragraph break of two newlines, and no header or
\* paragraph break is emitted anywhere else.
C7_HeaderAtSpeakerChange ==
    [][ (Running("render") /\ i <= Len(final_tokens))
        => LET speaker == ResolvedSpeaker(final_tokens[i])
               changed == i = 1 \/ speaker # ResolvedSpeaker(final_tokens[i - 1])
               added == SubSeq(text_parts', Len(text_parts) + 1, Len(text_parts'))
               marks == {k \in 1..Len(added) : IsHeader(added[k]) \/ added[k] = ParagraphBreak}
           IN  /\ SubSeq(text_parts', 1, Len(text_parts)) = text_parts
               /\ (changed /\ i = 1)
                      => (added[1] = SpeakerHeader(speaker) /\ marks = {1})
               /\ (changed /\ i > 1)
                      => /\ added[1] = ParagraphBreak
                         /\ added[2] = SpeakerHeader(speaker)
                         /\ marks = {1, 2}
               /\ ~changed => marks = {}
      ]_vars

\* Two tokens of one speaker more than the default gap apart, then a token
\* of another speaker: two headers, the second one after a paragraph break.
C7_Witness ==
    /\ Returned("render")
    /\ Len(final_tokens) = 3
    /\ ResolvedSpeaker(final_tokens[2]) = ResolvedSpeaker(final_tokens[1])
    /\ ResolvedSpeaker(final_tokens[3]) # ResolvedSpeaker(final_tokens[2])
    /\ StartOf(final_tokens[2]) - EndOf(final_tokens[1]) > DEFAULT_SEGMENT_GAP_MS
    /\ HeaderCount(text_parts) = 2
    /\ text_parts[1] = SpeakerHeader(ResolvedSpeaker(final_tokens[1]))
    /\ \E k \in 2..(Len(text_parts) - 1) :
           /\ text_parts[k] = ParagraphBreak
           /\ text_parts[k + 1] = SpeakerHeader(ResolvedSpeaker(final_tokens[3]))

NonBlank(segment) == Strip(segment.text) # <<>>

\* The block of a segment as the timestamped transcript shows it: the time
\* range and speaker on one line, the stripped text on the next.
BlockOf(segment) ==
    <<"[">> \o format_time(segment.start_ms) \o <<" ", "-", "-", ">", " ">>
        \o format_time(segment.end_ms) \o <<"]", " ", "S", "p", "e", "a", "k", "e", "r", " ">>
        \o segment.speaker \o <<":", "\n">> \o Strip(segment.text)

\* The blocks of the non-blank segments, in order, one blank line between them.
ExpectedTimestamps(segs) ==
    LET kept == SelectSeq(segs, NonBlank)
    IN  JoinWith(<<"\n", "\n">>, [k \in 1..Len(kept) |-> BlockOf(kept[k])])

\* C8: render_tokens_with_timestamps emits one block per segment whose
\* stripped text is non-empty, in segment order, and nothing for a segment
\* that is blank after stripping; consecutive blocks are separated by a single
\* blank line, the result has no trailing whitespace, and it is empty when
\* there are no segments or all are blank.
C8_TimestampBlocks ==
    Returned("timestamps") =>
        /\ result[1] = ExpectedTimestamps(segments)
        /\ result[1] # <<>> => ~IsSpace(result[1][Len(result[1])])
        /\ (\A k \in 1..Len(segments) : ~NonBlank(segments[k])) => result[1] = <<>>

\* Three segments, the middle one blank: two blocks were rendered.
C8_Witness ==
    /\ Returned("timestamps")
    /\ Len(segments) = 3
    /\ NonBlank(segments[1]) /\ ~NonBlank(segments[2]) /\ NonBlank(segments[3])
    /\ result[1] = BlockOf(segments[1]) \o <<"\n", "\n">> \o BlockOf(segments[3])

\* C9 as stated: for every gap_ms, the blocks the timestamped renderer
\* renders are those of group_tokens_by_speaker(tokens, gap_ms).
C9_AnyGap ==
    Returned("timestamps") =>
        \A g \in GapChoices :
            result[1] = ExpectedTimestamps(group_tokens_by_speaker(final_tokens, g))

\* C9: the timestamped renderer takes the token array only and always
\* segments with the default gap of 1500 ms: the blocks it renders are those
\* of group_tokens_by_speaker(tokens, 1500).
C9_DefaultGap ==
    call = "timestamps" =>
        /\ gap_ms = DEFAULT_SEGMENT_GAP_MS
        /\ segments = group_tokens_by_speaker(final_tokens, DEFAULT_SEGMENT_GAP_MS)
        /\ pc = "done" =>
               result[1] = ExpectedTimestamps(
                               group_tokens_by_speaker(final_tokens, DEFAULT_SEGMENT_GAP_MS))

\* The timestamped transcript of tokens that another gap would segment, and
\* render, differently.
C9_Witness ==
    /\ Returned("timestamps")
    /\ result[1] # <<>>
    /\ \E g \in GapChoices :
           /\ Len(group_tokens_by_speaker(final_tokens, g)) > Len(segments)
           /\ ExpectedTimestamps(group_tokens_by_speaker(final_tokens, g)) # result[1]

\* C10: in tokens_to_srt a token that arrives while a chunk is open stays in
\* that chunk if and only if its end minus chunk_start_ms is at most
\* chunk_duration_ms; otherwise it starts a new chunk.
C10_ChunkBoundary ==
    [][ (Running("srt") /\ i <= Len(final_tokens) /\ chunk_start_ms # None)
        => LET token == final_tokens[i]
               fits == EndOf(token) - chunk_start_ms[1] <= chunk_duration_ms
           IN  /\ fits <=> (/\ chunk_tokens' = Append(chunk_tokens, token["text"])
                            /\ chunk_start_ms' = chunk_start_ms
                            /\ chunk_index' = chunk_index
                            /\ srt_parts' = srt_parts)
               /\ ~fits <=> (/\ chunk_tokens' = <<token["text"]>>
                             /\ chunk_start_ms' = Some(StartOf(token))
                             /\ chunk_index' = chunk_index + 1
                             /\ Len(srt_parts') = Len(srt_parts) + 3)
      ]_vars

\* The second token ends exactly chunk_duration_ms after the chunk's start
\* and stayed; the third ends one millisecond later and opened chunk 2.
C10_Witness ==
    /\ Returned("srt")
    /\ Len(final_tokens) = 3
    /\ EndOf(final_tokens[2]) - StartOf(final_tokens[1]) = chunk_duration_ms
    /\ EndOf(final_tokens[3]) - StartOf(final_tokens[1]) = chunk_duration_ms + 1
    /\ chunk_index = 2
    /\ chunk_tokens = <<final_tokens[3]["text"]>>
    /\ Len(srt_parts) = 3

\* Tokens in non-decreasing start order, each ending no earlier than it starts.
WellFormed(tokens) ==
    /\ \A k \in 1..Len(tokens) : EndOf(tokens[k]) >= StartOf(tokens[k])
    /\ \A k \in 1..(Len(tokens) - 1) : StartOf(tokens[k]) <= StartOf(tokens[k + 1])

\* C11: every caption emitted by tokens_to_srt is duration-bounded: its
\* chunk_end_ms minus its chunk_start_ms is at most chunk_duration_ms, for
\* tokens in non-decreasing start order with end_ms >= start_ms.  Stated for
\* the caption written after the loop.
C11_CaptionBounded ==
    (Returned("srt") /\ final_tokens # <<>> /\ WellFormed(final_tokens))
        => chunk_end_ms[1] - chunk_start_ms[1] <= chunk_duration_ms

\* The time line of a caption.
TimeLine(start_ms, end_ms) ==
    format_srt_time(start_ms) \o <<" ", "-", "-", ">", " ">> \o format_srt_time(end_ms)
        \o <<"\n">>

\* C12: in the document of a non-empty token sequence every caption but the
\* last ends, after its stripped text, with exactly two newlines (one blank
\* line before the next caption's number), and the last caption ends with a
\* single newline and nothing after it; so also for a chunk whose text is
\* empty after stripping.
C12_CaptionSeparators ==
    (Returned("srt") /\ final_tokens # <<>>) =>
        /\ Len(srt_parts) = 3 * (chunk_index - 1)
        /\ \A k \in 1..(chunk_index - 1) :
               LET text == srt_parts[3 * k]
                   body == SubSeq(text, 1, Len(text) - 2)
               IN  /\ srt_parts[3 * k - 2] = NatStr(k) \o <<"\n">>
                   /\ Len(text) >= 2
                   /\ SubSeq(text, Len(text) - 1, Len(text)) = <<"\n", "\n">>
                   /\ Strip(body) = body
        /\ result[1] = Join(srt_parts) \o NatStr(chunk_index) \o <<"\n">>
                           \o TimeLine(chunk_start_ms[1], chunk_end_ms[1])
                           \o Strip(Join(chunk_tokens)) \o <<"\n">>

\* Two captions, the last one blank after stripping: its empty text line is
\* closed by one newline.
C12_Witness ==
    /\ Returned("srt")
    /\ chunk_index = 2
    /\ chunk_tokens # <<>>
    /\ Strip(Join(chunk_tokens)) = <<>>
    /\ result[1] = Join(srt_parts) \o <<"2", "\n">>
                       \o TimeLine(chunk_start_ms[1], chunk_end_ms[1]) \o <<"\n">>

-----------------------------------------------------------------------------
(* The time formatters *)

Digits == { DigitChar(d) : d \in 0..9 }

DigitVal(c) == CHOOSE d \in 0..9 : DigitChar(d) = c

\* The number a string of decimal digits denotes.
RECURSIVE ParseNat(_)
ParseNat(str) ==
    IF str = <<>> THEN 0
    ELSE 10 * ParseNat(SubSeq(str, 1, Len(str) - 1)) + DigitVal(str[Len(str)])

AllDigits(str) == \A k \in 1..Len(str) : str[k] \in Digits

\* The fields of a rendered time "H..H:MM:SS<sep>mmm", read from its right end.
TimeFields(str) ==
    LET n == Len(str)
    IN  [ HH |-> SubSeq(str, 1, n - 10), colon1 |-> str[n - 9],
          MM |-> SubSeq(str, n - 8, n - 7), colon2 |-> str[n - 6],
          SS |-> SubSeq(str, n - 5, n - 4), sep |-> str[n - 3],
          mmm |-> SubSeq(str, n - 2, n) ]

\* A rendered time is two or more hour digits (no padding beyond two), two
\* minute digits, two second digits, the separator and three millisecond digits.
TimeShape(str, sep) ==
    /\ Len(str) >= 12
    /\ LET f == TimeFields(str)
       IN  /\ f.colon1 = ":" /\ f.colon2 = ":" /\ f.sep = sep
           /\ AllDigits(f.HH) /\ AllDigits(f.MM) /\ AllDigits(f.SS) /\ AllDigits(f.mmm)
           /\ (Len(f.HH) > 2 => f.HH[1] # "0")

\* C13: for ms >= 0, format_time(ms) is HH:MM:SS.mmm with HH = ms div 3600000
\* (at least two digits, not reduced modulo 24), MM = (ms div 60000) mod 60,
\* SS = (ms div 1000) mod 60, mmm = ms mod 1000 in three digits; SS is never 60.
C13_FormatTime ==
    (Returned("format_time") /\ ms >= 0) =>
        /\ TimeShape(result[1], ".")
        /\ LET f == TimeFields(result[1])
           IN  /\ ParseNat(f.HH) = ms \div 3600000
               /\ ParseNat(f.MM) = (ms \div 60000) % 60
               /\ ParseNat(f.SS) = (ms \div 1000) % 60
               /\ ParseNat(f.SS) # 60
               /\ ParseNat(f.mmm) = ms % 1000

\* A time past one day, one millisecond before the next minute.
C13_Witness ==
    /\ Returned("format_time")
    /\ ms = 24 * 3600000 + 59 * 60000 + 59 * 1000 + 999
    /\ result[1] = <<"2", "4", ":", "5", "9", ":", "5", "9", ".", "9", "9", "9">>

\* C14: for ms >= 0, format_srt_time(ms) is HH:MM:SS,mmm with a comma before the
\* milliseconds, mmm = ms mod 1000, SS = (ms div 1000) mod 60 (truncated, not
\* rounded), MM = (ms div 60000) mod 60, HH = ms div 3600000, and its four
\* fields are the numbers format_time shows for the same ms.
C14_FormatSrtTime ==
    (Returned("format_srt_time") /\ ms >= 0) =>
        /\ TimeShape(result[1], ",")
        /\ LET f == TimeFields(result[1])
               g == TimeFields(format_time(ms))
           IN  /\ ParseNat(f.HH) = ms \div 3600000
               /\ ParseNat(f.MM) = (ms \div 60000) % 60
               /\ ParseNat(f.SS) = (ms \div 1000) % 60
               /\ ParseNat(f.mmm) = ms % 1000
               /\ ParseNat(f.HH) = ParseNat(g.HH) /\ ParseNat(f.MM) = ParseNat(g.MM)
               /\ ParseNat(f.SS) = ParseNat(g.SS) /\ ParseNat(f.mmm) = ParseNat(g.mmm)

\* The last millisecond of a second: rounding would show the next second.
C14_Witness ==
    /\ Returned("format_srt_time")
    /\ ms = 3600000 + 59 * 1000 + 999
    /\ result[1] = <<"0", "1", ":", "0", "0", ":", "5", "9", ",", "9", "9", "9">>

-----------------------------------------------------------------------------
(* Inverted spans *)

\* C15: with end_ms absent and duration_ms absent or >= 0, the span returned by
\* token_time_bounds has end >= start; a present end_ms below the start, or a
\* negative duration_ms, comes back as an inverted span, unchanged and without
\* any error.
C15_SpanOrder ==
    Returned("bounds") =>
        LET token == final_tokens[i]
            start == result[1][1]
            end == result[1][2]
        IN  /\ result # None
            /\ (~Has(token, "end_ms")
                    /\ (~Has(token, "duration_ms") \/ token["duration_ms"] >= 0))
                   => end >= start
            /\ (Has(token, "end_ms") /\ token["end_ms"] < start)
                   => (end = token["end_ms"] /\ end < start)
            /\ (~Has(token, "end_ms") /\ Has(token, "duration_ms")
                    /\ token["duration_ms"] < 0)
                   => (end = start + token["duration_ms"] /\ end < start)

\* A token starting at 1000 with duration -250 and no end_ms was resolved to
\* the inverted span (1000, 750).
C15_Witness ==
    /\ Returned("bounds")
    /\ DOMAIN final_tokens[i] = {"text", "start_ms", "duration_ms"}
    /\ final_tokens[i]["start_ms"] = 1000
    /\ final_tokens[i]["duration_ms"] = -250
    /\ result = Some(<<1000, 750>>)

-----------------------------------------------------------------------------
(* Skipping existing logos *)

\* A skipped provider's URL was never requested and its file is the one that
\* was there; a call that went past the test on the file has requested the
\* provider's URL.
SkippedUntouched ==
    \A provider_id \in Providers :
        /\ download[provider_id].status = Some("skipped")
               => /\ ~force
                  /\ files[OutputPath(provider_id)] = Some(OldContent)
                  /\ \A k \in 1..Len(http_log) : http_log[k] # LogoUrl(provider_id)
        /\ (download[provider_id].at \in {"write", "done"}
                /\ download[provider_id].status # Some("skipped"))
               => \E k \in 1..Len(http_log) : http_log[k] = LogoUrl(provider_id)

\* C16: download_logo with force false and an existing <provider_id>.svg
\* returns "skipped" with no HTTP request and no change to the file; with
\* force true the download is attempted even when the file exists.
C16_SkipExisting ==
    [][/\ \A provider_id \in Providers :
             (download[provider_id].at = "idle" /\ download'[provider_id].at # "idle"
                 /\ files[OutputPath(provider_id)] # None)
             => IF force
                THEN /\ download'[provider_id].at = "request"
                     /\ download'[provider_id].status = None
                ELSE /\ download'[provider_id] =
                            [at |-> "done", resp |-> None, status |-> Some("skipped")]
                     /\ http_log' = http_log
                     /\ files' = files
       /\ SkippedUntouched']_vars

\* With force false one provider's existing logo was skipped, untouched and
\* unrequested, while the other provider's missing logo was downloaded.
C16_Witness ==
    /\ ~force
    /\ download["openai"].status = Some("skipped")
    /\ files[OutputPath("openai")] = Some(OldContent)
    /\ download["anthropic"].status = Some("downloaded")
    /\ http_log = <<LogoUrl("anthropic")>>

-----------------------------------------------------------------------------
(* The segment being built *)

\* The largest resolved end among the tokens of a non-empty run.
RECURSIVE MaxEnd(_)
MaxEnd(tokens) ==
    IF Len(tokens) = 1 THEN EndOf(tokens[1])
    ELSE Max(EndOf(Head(tokens)), MaxEnd(Tail(tokens)))

\* The tokens consumed so far that went into the segment being built.
CurrentRun ==
    LET runs == SegmentRuns(SubSeq(final_tokens, 1, i - 1), gap_ms)
    IN  runs[Len(runs)]

\* C17: while a segment is extended its end_ms never decreases: after each
\* extension it is max(previous end_ms, token end), so a finalized segment's
\* end_ms is the largest resolved end over its tokens, also when a later token
\* ends before an earlier one; the long-pause test for the next token is made
\* against this running maximum, not against the previous token's end.
C17_RunningMaxEnd ==
    [][ (Running("group") /\ current_segment # None) =>
          LET segment == current_segment[1]
              broke == Len(segments') > Len(segments)
          IN  /\ segment.end_ms = MaxEnd(CurrentRun)
              /\ broke => segments'[Len(segments')].end_ms = MaxEnd(CurrentRun)
              /\ i <= Len(final_tokens) =>
                    LET token == final_tokens[i]
                    IN  /\ ~broke =>
                              /\ current_segment'[1].end_ms
                                     = Max(segment.end_ms, EndOf(token))
                              /\ current_segment'[1].end_ms >= segment.end_ms
                        /\ ResolvedSpeaker(token) = segment.speaker =>
                              (broke <=> StartOf(token) - MaxEnd(CurrentRun) > gap_ms)
      ]_vars

\* Three tokens of one speaker became one segment: the second ends before the
\* first, and the third starts within gap_ms of the first token's end but
\* more than gap_ms after the second token's end.
C17_Witness ==
    /\ Returned("group")
    /\ Len(final_tokens) = 3
    /\ EndOf(final_tokens[2]) < EndOf(final_tokens[1])
    /\ StartOf(final_tokens[3]) - EndOf(final_tokens[1]) <= gap_ms
    /\ StartOf(final_tokens[3]) - EndOf(final_tokens[2]) > gap_ms
    /\ Len(result[1]) = 1
    /\ result[1][1].end_ms = MaxEnd(final_tokens)

\* C18: a segment's speaker and start_ms are fixed when it is created, as the
\* resolved speaker and start of its first token; extending it leaves both
\* unchanged; a segment already appended to the output is never modified.
C18_SegmentIdentityFixed ==
    [][ Running("group") =>
          LET broke == Len(segments') > Len(segments)
          IN  /\ Len(segments') <= Len(segments) + 1
              /\ SubSeq(segments', 1, Len(segments)) = segments
              /\ broke => segments'[Len(segments')] = current_segment[1]
              /\ i <= Len(final_tokens) =>
                    LET token == final_tokens[i]
                    IN  /\ (current_segment = None \/ broke) =>
                              /\ current_segment'[1].speaker = ResolvedSpeaker(token)
                              /\ current_segment'[1].start_ms = StartOf(token)
                        /\ (current_segment # None /\ ~broke) =>
                              /\ current_segment'[1].speaker = current_segment[1].speaker
                              /\ current_segment'[1].start_ms = current_segment[1].start_ms
              /\ pc' = "done" =>
                    LET runs == SegmentRuns(final_tokens, gap_ms)
                    IN  /\ result' = Some(segments')
                        /\ \A k \in 1..Len(segments') :
                               /\ segments'[k].speaker = ResolvedSpeaker(runs[k][1])
                               /\ segments'[k].start_ms = StartOf(runs[k][1])
      ]_vars

\* The first segment was merged from two tokens, the second starting before
\* the first, and kept the first token's start; a second segment followed it.
C18_Witness ==
    /\ Returned("group")
    /\ Len(final_tokens) = 3
    /\ StartOf(final_tokens[2]) < StartOf(final_tokens[1])
    /\ Len(result[1]) = 2
    /\ result[1][1].start_ms = StartOf(final_tokens[1])
    /\ result[1][1].text = final_tokens[1]["text"] \o final_tokens[2]["text"]
    /\ result[1][2].start_ms = StartOf(final_tokens[3])

\* The number of tokens, after the first of a segment whose speaker and running
\* end are given, at which the speaker changed or the pause exceeded the gap.
RECURSIVE BreakCount(_, _, _, _)
BreakCount(speaker, end_ms, tokens, gap) ==
    IF tokens = <<>> THEN 0
    ELSE LET token == Head(tokens)
             speaker_changed == ResolvedSpeaker(token) # speaker
             long_pause == StartOf(token) - end_ms > gap
         IN  IF speaker_changed \/ long_pause
             THEN 1 + BreakCount(ResolvedSpeaker(token), EndOf(token), Tail(tokens), gap)
             ELSE BreakCount(speaker, Max(end_ms, EndOf(token)), Tail(tokens), gap)

\* C19: the output segments are maximal: for adjacent segments P then N,
\* N.speaker differs from P.speaker or N.start_ms - P.end_ms > gap_ms; and a
\* non-empty input gives 1 plus the number of tokens at which speaker_changed
\* or long_pause held, so a single token gives exactly one segment.
C19_MaximalSegments ==
    (Returned("group") /\ final_tokens # <<>>) =>
        LET out == result[1]
            first == final_tokens[1]
        IN  /\ \A k \in 1..(Len(out) - 1) :
                   \/ out[k + 1].speaker # out[k].speaker
                   \/ out[k + 1].start_ms - out[k].end_ms > gap_ms
            /\ Len(out) = 1 + BreakCount(ResolvedSpeaker(first), EndOf(first),
                                         Tail(final_tokens), gap_ms)
            /\ Len(final_tokens) = 1 => Len(out) = 1

\* Three tokens gave two segments that are apart by no more than gap_ms and
\* differ in speaker.
C19_Witness ==
    /\ Returned("group")
    /\ Len(final_tokens) = 3
    /\ Len(result[1]) = 2
    /\ result[1][2].speaker # result[1][1].speaker
    /\ result[1][2].start_ms - result[1][1].end_ms <= gap_ms

-----------------------------------------------------------------------------
(* Language markers *)

IsMarker(part) ==
    /\ Len(part) >= 4
    /\ SubSeq(part, 1, 2) = <<"\n", "[">>
    /\ SubSeq(part, Len(part) - 1, Len(part)) = <<"]", " ">>

\* Index of the first token of the speaker block that token k belongs to.
RECURSIVE BlockStart(_)
BlockStart(k) ==
    IF k = 1 \/ ResolvedSpeaker(final_tokens[k]) # ResolvedSpeaker(final_tokens[k - 1])
    THEN k ELSE BlockStart(k - 1)

\* The language of the last language-bearing token before token k in k's
\* speaker block, None when there is none.
PriorLanguage(k) ==
    LET bearing == { j \in BlockStart(k)..(k - 1) : Has(final_tokens[j], "language") }
    IN  IF bearing = {} THEN None
        ELSE Some(final_tokens[CHOOSE j \in bearing : \A m \in bearing : m <= j]["language"])

\* C20: render_tokens emits a language marker before a token's text if and
\* only if the token's language is present and differs from the tracked
\* language; the tracked language is reset at every speaker change, so the
\* first language-bearing token of a speaker block always gets a marker, also
\* when its language is the one in force before the change; a token without
\* language emits no marker and leaves the tracked language as it is.
C20_LanguageMarker ==
    [][ (Running("render") /\ i <= Len(final_tokens)) =>
          LET token == final_tokens[i]
              changed == i = 1 \/ ResolvedSpeaker(token) # ResolvedSpeaker(final_tokens[i - 1])
              tracked == IF changed THEN None ELSE current_language
              present == Has(token, "language")
              added == SubSeq(text_parts', Len(text_parts) + 1, Len(text_parts'))
              markers == { k \in 1..Len(added) : IsMarker(added[k]) }
          IN  /\ tracked = PriorLanguage(i)
              /\ (markers # {}) <=> (present /\ Some(token["language"]) # tracked)
              /\ markers # {} =>
                    /\ markers = {Len(added) - 1}
                    /\ added[Len(added) - 1] = LanguageMarker(token["language"])
              /\ (present /\ PriorLanguage(i) = None) => markers # {}
              /\ present => current_language' = Some(token["language"])
              /\ ~present => (markers = {} /\ current_language' = tracked)
      ]_vars

\* Two tokens of different speakers, both in the same language: each block
\* opens with its own marker.
C20_Witness ==
    /\ Returned("render")
    /\ Len(final_tokens) = 2
    /\ ResolvedSpeaker(final_tokens[1]) # ResolvedSpeaker(final_tokens[2])
    /\ Has(final_tokens[1], "language") /\ Has(final_tokens[2], "language")
    /\ final_tokens[1]["language"] = final_tokens[2]["language"]
    /\ Len(text_parts) = 7
    /\ text_parts[2] = LanguageMarker(final_tokens[1]["language"])
    /\ text_parts[6] = LanguageMarker(final_tokens[2]["language"])

\* str is text without its leading whitespace, and with nothing else removed.
LeadingStripped(str, text) ==
    /\ \E n \in 0..Len(text) :
          /\ str = SubSeq(text, n + 1, Len(text))
          /\ \A k \in 1..n : IsSpace(text[k])
    /\ (str = <<>> \/ ~IsSpace(str[1]))

\* C21: render_tokens strips leading whitespace from a token's text only where
\* it emits a language marker for that token; every other token's text is
\* appended unchanged, leading and trailing whitespace included, and the
\* result is the plain concatenation of the parts, with no trailing
\* normalization.
C21_StripOnlyAtMarker ==
    [][ Running("render") =>
          /\ i <= Len(final_tokens) =>
                LET token == final_tokens[i]
                    marked == /\ Has(token, "language")
                              /\ Some(token["language"]) # PriorLanguage(i)
                    last == text_parts'[Len(text_parts')]
                IN  /\ marked => LeadingStripped(last, token["text"])
                    /\ ~marked => last = token["text"]
          /\ i > Len(final_tokens) =>
                /\ text_parts' = text_parts
                /\ result' = Some(Join(text_parts))
      ]_vars

\* Two tokens of one speaker and one language, each with text " a ": the first
\* follows its marker without the leading blank, the second keeps both blanks,
\* and the transcript ends with the trailing blank.
C21_Witness ==
    /\ Returned("render")
    /\ Len(final_tokens) = 2
    /\ Len(text_parts) = 4
    /\ IsMarker(text_parts[2])
    /\ text_parts[3] = <<"a", " ">>
    /\ text_parts[4] = <<" ", "a", " ">>
    /\ result[1][Len(result[1])] = " "

-----------------------------------------------------------------------------
(* The chunks of tokens_to_srt *)

\* The chunks as runs of tokens: a token joins the open run when its end is
\* within the duration of the start of the run's first token, and opens the
\* next run otherwise.
RECURSIVE ChunkLoop(_, _, _, _)
ChunkLoop(runs, run, tokens, duration) ==
    IF tokens = <<>> THEN (IF run = <<>> THEN runs ELSE Append(runs, run))
    ELSE LET token == Head(tokens)
         IN  IF run = <<>> THEN ChunkLoop(runs, <<token>>, Tail(tokens), duration)
             ELSE IF EndOf(token) - StartOf(run[1]) <= duration
             THEN ChunkLoop(runs, Append(run, token), Tail(tokens), duration)
             ELSE ChunkLoop(Append(runs, run), <<token>>, Tail(tokens), duration)

ChunkRuns(tokens, duration) == ChunkLoop(<<>>, <<>>, tokens, duration)

\* The tokens consumed so far that are in the open chunk.
OpenChunk ==
    LET runs == ChunkRuns(SubSeq(final_tokens, 1, i - 1), chunk_duration_ms)
    IN  runs[Len(runs)]

\* C22: the duration test for every token after a chunk's first is anchored at
\* the start of the chunk's first token (chunk_start_ms does not change while
\* the chunk is open); a token failing the test is not added to the current
\* chunk but is the first token of the next; the caption's end time is the
\* resolved end of the last token appended to the chunk.
C22_AnchoredChunks ==
    [][ (Running("srt") /\ i > 1) =>
          LET run == OpenChunk
              anchor == StartOf(run[1])
              last_end == EndOf(run[Len(run)])
          IN  /\ chunk_start_ms = Some(anchor)
              /\ chunk_end_ms = Some(last_end)
              /\ chunk_tokens = TextsOf(run)
              /\ i <= Len(final_tokens) =>
                    LET token == final_tokens[i]
                    IN  IF EndOf(token) - anchor <= chunk_duration_ms
                        THEN /\ chunk_start_ms' = chunk_start_ms
                             /\ chunk_tokens' = Append(chunk_tokens, token["text"])
                             /\ chunk_end_ms' = Some(EndOf(token))
                             /\ srt_parts' = srt_parts
                        ELSE /\ chunk_tokens' = <<token["text"]>>
                             /\ chunk_start_ms' = Some(StartOf(token))
                             /\ chunk_end_ms' = Some(EndOf(token))
                             /\ srt_parts' = srt_parts \o
                                    << NatStr(chunk_index) \o <<"\n">>,
                                       TimeLine(anchor, last_end),
                                       Strip(Join(TextsOf(run))) \o <<"\n", "\n">> >>
              /\ i > Len(final_tokens) =>
                    result' = Some(Join(srt_parts) \o NatStr(chunk_index) \o <<"\n">>
                                       \o TimeLine(anchor, last_end)
                                       \o Strip(Join(TextsOf(run))) \o <<"\n">>)
      ]_vars

\* The third token ends within the duration of the second token's start but
\* not of the first token's: it opened chunk 2, and the first caption ends
\* where the second token ends.
C22_Witness ==
    /\ Returned("srt")
    /\ Len(final_tokens) = 3
    /\ EndOf(final_tokens[2]) - StartOf(final_tokens[1]) <= chunk_duration_ms
    /\ EndOf(final_tokens[3]) - StartOf(final_tokens[2]) <= chunk_duration_ms
    /\ EndOf(final_tokens[3]) - StartOf(final_tokens[1]) > chunk_duration_ms
    /\ chunk_index = 2
    /\ srt_parts[2] = TimeLine(StartOf(final_tokens[1]), EndOf(final_tokens[2]))
    /\ chunk_start_ms = Some(StartOf(final_tokens[3]))

-----------------------------------------------------------------------------
(* The unknown speaker *)

\* The three forms of a token without a usable speaker: no speaker field, an
\* empty speaker, the literal "unknown".
UnknownForm(token) ==
    \/ ~Has(token, "speaker")
    \/ token["speaker"] = <<>>
    \/ token["speaker"] = <<"u", "n", "k", "n", "o", "w", "n">>

\* C23: a token with no speaker, with an empty speaker and with the literal
\* speaker "unknown" are all attributed to the speaker "unknown": adjacent
\* such tokens without a long pause are merged into one segment by
\* group_tokens_by_speaker and get no new speaker header in render_tokens.
C23_UnknownSpeaker ==
    [][ (i <= Len(final_tokens) /\ UnknownForm(final_tokens[i])) =>
          LET token == final_tokens[i]
              after_unknown == i > 1 /\ UnknownForm(final_tokens[i - 1])
              added == SubSeq(text_parts', Len(text_parts) + 1, Len(text_parts'))
          IN  /\ Running("group") =>
                    /\ current_segment'[1].speaker = <<"u", "n", "k", "n", "o", "w", "n">>
                    /\ (after_unknown
                           /\ StartOf(token) - current_segment[1].end_ms <= gap_ms)
                          => /\ segments' = segments
                             /\ current_segment'[1].text
                                    = current_segment[1].text \o token["text"]
              /\ Running("render") =>
                    /\ current_speaker' = Some(<<"u", "n", "k", "n", "o", "w", "n">>)
                    /\ after_unknown => \A k \in 1..Len(added) : ~IsHeader(added[k])
                    /\ i = 1 => added[1] = <<"S", "p", "e", "a", "k", "e", "r", " ", "u", "n",
                                             "k", "n", "o", "w", "n", ":">>
      ]_vars

\* Three tokens, one of each form, became a single segment of speaker
\* "unknown".
C23_Witness ==
    /\ Returned("group")
    /\ Len(final_tokens) = 3
    /\ \A k \in 1..3 : UnknownForm(final_tokens[k])
    /\ \E a, b, c \in 1..3 :
          /\ ~Has(final_tokens[a], "speaker")
          /\ Has(final_tokens[b], "speaker") /\ final_tokens[b]["speaker"] = <<>>
          /\ Has(final_tokens[c], "speaker") /\ final_tokens[c]["speaker"] # <<>>
    /\ Len(result[1]) = 1
    /\ result[1][1].speaker = <<"u", "n", "k", "n", "o", "w", "n">>

\* The token with its speaker and language fields replaced by those of label,
\* a pair of Optional values; text and timing fields are kept.
Relabel(token, label) ==
    [k \in DOMAIN token \ {"speaker", "language"} |-> token[k]]
        @@ Field("speaker", label[1]) @@ Field("language", label[2])

\* C24: the output of tokens_to_srt does not depend on speaker or language:
\* token arrays that agree on every token's text, start_ms, end_ms and
\* duration_ms but differ in speaker and language give the same subtitle
\* document for the same chunk_duration_ms.
C24_SpeakerIndependent ==
    Returned("srt") =>
        \A labels \in [1..Len(final_tokens) -> SpeakerLanguages] :
            tokens_to_srt([k \in 1..Len(final_tokens) |-> Relabel(final_tokens[k], labels[k])],
                          chunk_duration_ms) = result[1]

\* Two tokens of different speakers, one of them with a language, in one
\* caption; the same tokens without speaker and language give this document.
C24_Witness ==
    /\ Returned("srt")
    /\ Len(final_tokens) = 2
    /\ ResolvedSpeaker(final_tokens[1]) # ResolvedSpeaker(final_tokens[2])
    /\ Has(final_tokens[1], "language") /\ ~Has(final_tokens[2], "language")
    /\ chunk_index = 1
    /\ result[1] # <<>>
    /\ result[1] = tokens_to_srt([k \in 1..2 |-> Relabel(final_tokens[k], <<None, None>>)],
                                 chunk_duration_ms)

\* The number of tokens after the first that fail the duration test, the
\* anchor being the start of the latest token that opened a chunk.
RECURSIVE FailCount(_, _, _)
FailCount(anchor, tokens, duration) ==
    IF tokens = <<>> THEN 0
    ELSE IF EndOf(Head(tokens)) - anchor <= duration
    THEN FailCount(anchor, Tail(tokens), duration)
    ELSE 1 + FailCount(StartOf(Head(tokens)), Tail(tokens), duration)

\* C25: tokens_to_srt partitions a non-empty token sequence into k >= 1
\* contiguous, non-empty chunks in input order: every token is in exactly one
\* chunk, none is dropped or repeated, and the captions are numbered 1, 2,
\* ..., k in emission order, k being 1 plus the number of tokens that failed
\* the duration test.  Stated on the tokens consumed so far at every point of
\* the loop and at the return.
C25_ChunkPartition ==
    (call = "srt" /\ pc \in {"loop", "done"} /\ i > 1) =>
        LET seen == SubSeq(final_tokens, 1, i - 1)
            runs == ChunkRuns(seen, chunk_duration_ms)
            k == Len(runs)
        IN  /\ k >= 1
            /\ \A j \in 1..k : runs[j] # <<>>
            /\ Join(runs) = seen
            /\ k = 1 + FailCount(StartOf(seen[1]), Tail(seen), chunk_duration_ms)
            /\ chunk_index = k
            /\ chunk_tokens = TextsOf(runs[k])
            /\ Len(srt_parts) = 3 * (k - 1)
            /\ \A j \in 1..(k - 1) :
                   /\ srt_parts[3 * j - 2] = NatStr(j) \o <<"\n">>
                   /\ srt_parts[3 * j] = Strip(Join(TextsOf(runs[j]))) \o <<"\n", "\n">>
            /\ pc = "done" =>
                   result[1] = Join(srt_parts) \o NatStr(k) \o <<"\n">>
                                  \o TimeLine(StartOf(runs[k][1]), EndOf(runs[k][Len(runs[k])]))
                                  \o Strip(Join(TextsOf(runs[k]))) \o <<"\n">>

\* Three tokens, the second and the third failing the test: three captions,
\* numbered 1, 2, 3, of one token each.
C25_Witness ==
    /\ Returned("srt")
    /\ Len(final_tokens) = 3
    /\ chunk_index = 3
    /\ srt_parts[1] = <<"1", "\n">>
    /\ srt_parts[4] = <<"2", "\n">>
    /\ srt_parts[3] = Strip(final_tokens[1]["text"]) \o <<"\n", "\n">>
    /\ srt_parts[6] = Strip(final_tokens[2]["text"]) \o <<"\n", "\n">>
    /\ chunk_tokens = <<final_tokens[3]["text"]>>

-----------------------------------------------------------------------------
(* The plain and the diarized view *)

\* The indices of the tokens that open a segment of group_tokens_by_speaker.
Boundaries(tokens, gap) ==
    LET runs == SegmentRuns(tokens, gap)
    IN  { 1 + SumLen(SubSeq(runs, 1, j - 1)) : j \in 1..Len(runs) }

\* C26: for every token sequence and every gap_ms, render_tokens emits no more
\* speaker headers than group_tokens_by_speaker returns segments, every header
\* position is also a segment boundary, and the two counts are equal exactly
\* when no long pause splits a run of same-speaker tokens.
C26_HeadersVersusSegments ==
    [][ Running("render") =>
          \A g \in GapChoices :
              LET bounds == Boundaries(final_tokens, g)
                  added == SubSeq(text_parts', Len(text_parts) + 1, Len(text_parts'))
                  headers == HeaderCount(text_parts)
                  count == Len(group_tokens_by_speaker(final_tokens, g))
                  split == \E k \in bounds :
                               /\ k > 1
                               /\ ResolvedSpeaker(final_tokens[k])
                                      = ResolvedSpeaker(final_tokens[k - 1])
              IN  /\ (i <= Len(final_tokens) /\ \E k \in 1..Len(added) : IsHeader(added[k]))
                         => i \in bounds
                  /\ i > Len(final_tokens) =>
                         /\ headers <= count
                         /\ (headers = count) <=> ~split
      ]_vars

\* Three tokens with two headers: with a gap of 100 a long pause splits the
\* first speaker's run and there are three segments, with the default gap
\* there are two.
C26_Witness ==
    /\ Returned("render")
    /\ Len(final_tokens) = 3
    /\ HeaderCount(text_parts) = 2
    /\ Len(group_tokens_by_speaker(final_tokens, 100)) = 3
    /\ Len(group_tokens_by_speaker(final_tokens, DEFAULT_SEGMENT_GAP_MS)) = 2

-----------------------------------------------------------------------------
(* Cleanup of transcribe_local_file *)

\* The transcript was asked for only after a poll saw the status "completed".
RetrievedAfterCompleted ==
    transcribe_pc \in {"delete transcription", "delete file", "render", "returned"}
        => (poll_count >= 1 /\ service.status = "completed")

\* C27: on every path that leaves transcribe_local_file after the upload
\* succeeded (normal return, a transcription status of "error", a failed
\* HTTP request while creating, polling or retrieving), the created
\* transcription and the uploaded file are deleted from the service before the
\* function exits; and the transcript is retrieved only after a poll observed
\* the status "completed".
C27_CleanupOnEveryExit ==
    /\ (transcribe_pc \in {"returned", "raised"} /\ file_id # None)
          => (service.files = {} /\ service.transcriptions = {})
    /\ RetrievedAfterCompleted

-----------------------------------------------------------------------------
(* The rename plan *)

\* C28: the plan built by compute_plan has pairwise distinct targets, none of
\* which names a file that existed in the directory when the plan was
\* computed; so when apply_plan runs that plan on the unchanged directory no
\* rename finds its destination existing, no file is overwritten and every
\* planned rename is carried out.
C28_PlanTargetsFree ==
    [][ /\ rename_pc' = "plan" =>
              /\ \A j \in 1..Len(plan') : plan'[j][2] \notin directory'
              /\ \A j, k \in 1..Len(plan') : plan'[j][2] = plan'[k][2] => j = k
        /\ (rename_pc = "apply" /\ position <= Len(plan)) =>
              LET src == plan[position][1]
                  dst == plan[position][2]
              IN  /\ dst \notin directory
                  /\ src \in directory
                  /\ directory' = (directory \ {src}) \cup {dst}
                  /\ Cardinality(directory') = Cardinality(directory)
                  /\ renames' = Append(renames, <<src, dst>>)
        /\ (rename_pc' = "done" /\ ~dry_run) => (renames' = plan' /\ skipped' = <<>>)
        /\ rename_pc' # "raised"
      ]_vars

\* Three files were renamed as planned, one of them to a " (dup2)" name
\* because the name computed for it was that of an existing file.
C28_Witness ==
    /\ rename_pc = "done"
    /\ ~dry_run
    /\ Len(plan) = 3
    /\ renames = plan
    /\ \E j \in 1..3 : plan[j][2].dup = 2 /\ plan[j][1].dup = 0 /\ ~plan[j][1].prefixed
    /\ directory = { plan[j][2] : j \in 1..3 }

\* C29: renaming is idempotent: a file whose current name already equals the
\* name computed for it (same index and cleaned title) is planned with target
\* equal to source and left untouched by apply_plan's src == dst skip, so
\* computing and applying the plan again with the same start index on an
\* already renamed directory renames nothing.
C29_RenameIdempotent ==
    LET named(j) == plan[j][1] = build_new_name(start_index + j - 1,
                                                clean_title_from_filename(plan[j][1]))
    IN  /\ \A j \in 1..Len(plan) : named(j) => plan[j][2] = plan[j][1]
        /\ (rename_pc = "done" /\ Len(plan) = Len(listing)
               /\ \A j \in 1..Len(plan) : named(j))
              => renames = <<>>

\* The statuses of the futures that are not "downloaded" or "skipped".
FailedFutures ==
    {k \in 1..Len(futures) :
        futures[k].call.status \notin {Some("downloaded"), Some("skipped")}}

\* C30: the provider ids main submits to the pool are pairwise distinct, so
\* no two workers have the same output file and a worker that skips found a
\* file no other worker wrote; every submitted provider is yielded once and
\* has exactly one status, the one its worker returned; the summary counts
\* and the exit code are those of the workers' statuses whatever the order in
\* which the workers completed, and the exit code is 0 if and only if no
\* provider failed.
C30_DistinctWorkers ==
    /\ \A j, k \in 1..Len(provider_ids) :
          j # k => /\ provider_ids[j] # provider_ids[k]
                   /\ OutputPath(provider_ids[j]) # OutputPath(provider_ids[k])
    /\ \A j, k \in 1..Len(futures) :
          j # k => OutputPath(futures[j].provider_id) # OutputPath(futures[k].provider_id)
    /\ \A k \in 1..Len(futures) :
          futures[k].call.status = Some("skipped")
             => files[OutputPath(futures[k].provider_id)] = Some(OldContent)
    /\ \A j, k \in 1..Len(completion) : j # k => completion[j] # completion[k]
    /\ DOMAIN statuses = { futures[completion[j]].provider_id : j \in 1..Len(completion) }
    /\ \A j \in 1..Len(completion) :
          statuses[futures[completion[j]].provider_id] = futures[completion[j]].call.status[1]
    /\ summary # None =>
          /\ Len(completion) = Len(provider_ids)
          /\ Cardinality(DOMAIN statuses) = Len(provider_ids)
          /\ summary[1].downloaded =
                Cardinality({k \in 1..Len(futures) :
                                futures[k].call.status = Some("downloaded")})
          /\ summary[1].skipped =
                Cardinality({k \in 1..Len(futures) :
                                futures[k].call.status = Some("skipped")})
          /\ summary[1].failed = Cardinality(FailedFutures)
          /\ summary[1].downloaded + summary[1].skipped + summary[1].failed
                = Len(provider_ids)
          /\ exit_code \in {Some(0), Some(1)}
          /\ exit_code = Some(0) <=> FailedFutures = {}

\* The catalog named an id twice, two workers were submitted, the second one
\* completed first, one logo was downloaded and one request failed: main
\* returned 1.
C30_Witness ==
    /\ main_pc = "done"
    /\ Len(catalog_ids) = 3
    /\ Len(futures) = 2
    /\ completion = <<2, 1>>
    /\ summary = Some([downloaded |-> 1, skipped |-> 0, failed |-> 1])
    /\ exit_code = Some(1)

====
